---------------------------- MODULE Spec2Model ----------------------------
(***************************************************************************)
(* State-machine model of the three event hubs of ngx-signal-hub:          *)
(*   "queued" : SignalHubService with an eventQueue flushed by an effect   *)
(*              (projects/ngx-signal-hub/src/lib/signal-bus.service.ts)    *)
(*   "sync"   : SignalHubService that writes the registry and dispatches   *)
(*              inside publish (unnamed/part_000, lines 56-347)            *)
(*   "legacy" : SignalBusService (unnamed/part_001, lines 153-302)         *)
(* Strings are sequences of one-character strings, so that split, includes *)
(* and the wildcard regular expression are computed as the code does.      *)
(***************************************************************************)
EXTENDS Integers, Sequences, FiniteSets, TLC

VARIABLES
  hub,          \* which service this behaviour runs: "queued", "sync", "legacy", "match"
  eventQueue,   \* signal<HubEvent[]>: events published and not yet flushed
  eventRegistry,\* signal<Map<string, HubEvent>>: the Map in insertion order
  subscribers,  \* Map<string, Array|Set<entry>> in insertion order
  meta,         \* one record per subscribe-like call: its closure variables
  tasks,        \* the microtask queue: promise reactions in FIFO order
  stack,        \* synchronous call stack of dispatch loops in progress
  destroyed,    \* the DestroyRef has run its onDestroy callbacks
  exc,          \* an exception is propagating out of the innermost dispatch loop
  clock,        \* Date.now()
  published,    \* every HubEvent object created so far, in creation order
  recv,         \* per subscription: ids of the events its user callback got
  last,         \* the most recent API call or scheduling step
  lastOp,       \* per key: the most recent publish / clear / reset touching it
  mkey, mquery, mres,  \* inputs and result of one matchQuery evaluation
  untilSignal   \* value of the Signal<boolean> that callers pass in until

matchVars == <<mkey, mquery, mres>>
syncVars == <<stack, exc>>
vars == <<hub, eventQueue, eventRegistry, subscribers, meta, tasks, stack, exc,
          destroyed, clock, published, recv, last, lastOp, mkey, mquery, mres,
          untilSignal>>

(***************************************************************************)
(* Bounds of the model                                                     *)
(***************************************************************************)
MaxPub == 3        \* publish calls per behaviour
MaxSubs == 2       \* subscribe-like calls per behaviour
MaxKeyLen == 3     \* length of a key given to matchQuery
MaxQueryLen == 5   \* length of a pattern given to matchQuery
MaxCalls == 3      \* invocations of one onCombineLatest callback per behaviour

(***************************************************************************)
(* Strings                                                                 *)
(***************************************************************************)
Alphabet == {"a", "b", ":", "*"}
StarStr == <<"*">>
EmptyStr == <<>>

StrsUpTo(n) == UNION {[1..k -> Alphabet] : k \in 0..n}

Includes(s, c) == \E i \in DOMAIN s : s[i] = c

FirstIndexOf(s, c) ==
  IF Includes(s, c)
  THEN CHOOSE i \in DOMAIN s : s[i] = c /\ \A j \in 1..(i - 1) : s[j] # c
  ELSE 0

RECURSIVE Split(_, _)
\* String.prototype.split(c): every segment between separators
Split(s, c) ==
  LET i == FirstIndexOf(s, c) IN
  IF i = 0 THEN <<s>>
  ELSE <<SubSeq(s, 1, i - 1)>> \o Split(SubSeq(s, i + 1, Len(s)), c)

\* const [p1, p2] = s.split(':') : a missing element is undefined
Part(parts, n) == IF n <= Len(parts) THEN parts[n] ELSE <<"undefined">>

(***************************************************************************)
(* matchQuery of the queued hub and of the legacy bus                      *)
(***************************************************************************)
matchQuery(key, query) ==
  IF key = query THEN TRUE
  ELSE IF query = StarStr THEN TRUE
  ELSE IF Includes(key, ":") /\ Includes(query, ":")
       THEN LET keyPart1 == Part(Split(key, ":"), 1)
                queryPart1 == Part(Split(query, ":"), 1)
                queryPart2 == Part(Split(query, ":"), 2)
            IN keyPart1 = queryPart1 /\ queryPart2 = StarStr
       ELSE FALSE

(***************************************************************************)
(* matchQuery of the synchronous hub: buildWildcardRegex                   *)
(***************************************************************************)
RECURSIVE RegexTest(_, _)
\* new RegExp('^' + query.replace(/\*/g, '[^:]+') + '$').test(key); the
\* other characters of the alphabet stand for themselves
RegexTest(query, key) ==
  IF query = <<>> THEN key = <<>>
  ELSE IF Head(query) = "*"
       THEN \E n \in 1..Len(key) :
              /\ \A j \in 1..n : key[j] # ":"
              /\ RegexTest(Tail(query), SubSeq(key, n + 1, Len(key)))
       ELSE /\ key # <<>>
            /\ Head(key) = Head(query)
            /\ RegexTest(Tail(query), Tail(key))

matchQuerySync(key, query) ==
  IF query = StarStr \/ key = query THEN TRUE
  ELSE IF ~Includes(query, "*") THEN FALSE
  ELSE RegexTest(query, key)

(***************************************************************************)
(* Inputs of the hubs                                                      *)
(***************************************************************************)
KeyAB == <<"a", ":", "b">>
KeyAC == <<"a", ":", "c">>
QueryAStar == <<"a", ":", "*">>
Keys == {KeyAB, KeyAC}
Queries == {KeyAB, QueryAStar}
Data == {"x", "y"}
\* the user callback references that can be passed to subscribe / on
Callbacks == {1}
\* the wrapper closure that once / onceAsync create for subscription s
WrapperOf(s) == 100 + s
\* the wrapper that internalSubscribe(condition, unsubscribeAll, ..., true)
\* stores for the until condition of call s
StopOf(s) == 200 + s

NoEvent == [key |-> EmptyStr, data |-> "none", timestamp |-> 0, id |-> 0]

\* What a user callback does when it is invoked: returns, throws, or calls
\* publish(key, data) and returns.
OkB == [t |-> "ok", key |-> EmptyStr, data |-> "none"]
ThrowB == [t |-> "throw", key |-> EmptyStr, data |-> "none"]
PubB(k, d) == [t |-> "pub", key |-> k, data |-> d]
\* an async callback whose promise rejects
RejectB == [t |-> "reject", key |-> EmptyStr, data |-> "none"]
\* an async callback whose promise never settles
PendingB == [t |-> "pending", key |-> EmptyStr, data |-> "none"]
\* a callback that calls clearEvent(key), or reset(), and returns
ClearB(k) == [t |-> "clear", key |-> k, data |-> "none"]
ResetB == [t |-> "reset", key |-> EmptyStr, data |-> "none"]
Behaviours == {OkB, ThrowB} \cup {PubB(k, d) : k \in Keys, d \in Data}

(***************************************************************************)
(* Map<string, HubEvent> in insertion order                                *)
(***************************************************************************)
RegIndex(reg, k) ==
  IF \E i \in DOMAIN reg : reg[i].key = k
  THEN CHOOSE i \in DOMAIN reg : reg[i].key = k
  ELSE 0

\* Map.prototype.get: undefined is NoEvent
RegGet(reg, k) == IF RegIndex(reg, k) = 0 THEN NoEvent ELSE reg[RegIndex(reg, k)]

\* Map.prototype.set keeps the position of a key already present
RegSet(reg, e) ==
  IF RegIndex(reg, e.key) = 0 THEN Append(reg, e)
  ELSE [reg EXCEPT ![RegIndex(reg, e.key)] = e]

RegDelete(reg, k) ==
  LET i == RegIndex(reg, k) IN
  IF i = 0 THEN reg ELSE SubSeq(reg, 1, i - 1) \o SubSeq(reg, i + 1, Len(reg))

RECURSIVE RegSetAll(_, _)
RegSetAll(reg, evs) ==
  IF evs = <<>> THEN reg ELSE RegSetAll(RegSet(reg, Head(evs)), Tail(evs))

(***************************************************************************)
(* Map<string, Array<{callback, onError}>> of the queued hub               *)
(***************************************************************************)
SubsIndex(subs, q) ==
  IF \E i \in DOMAIN subs : subs[i].query = q
  THEN CHOOSE i \in DOMAIN subs : subs[i].query = q
  ELSE 0

RemoveAt(seq, i) == SubSeq(seq, 1, i - 1) \o SubSeq(seq, i + 1, Len(seq))

RECURSIVE FilterOut(_, _)
\* callbacks.filter(sub => sub.callback !== callback)
FilterOut(list, cb) ==
  IF list = <<>> THEN <<>>
  ELSE IF Head(list).cb = cb THEN FilterOut(Tail(list), cb)
       ELSE <<Head(list)>> \o FilterOut(Tail(list), cb)

\* the push and the Map.set of internalSubscribe; stamp orders the Map's
\* entries for a forEach that runs while the Map changes (0 in the queued
\* hub, whose dispatch loop runs no callback)
PushSubscriber(subs, q, entry, stamp) ==
  LET i == SubsIndex(subs, q) IN
  IF i = 0 THEN Append(subs, [query |-> q, stamp |-> stamp, list |-> <<entry>>])
  ELSE [subs EXCEPT ![i].list = Append(@, entry)]

\* private unsubscribe(query, callback)
unsubscribe(subs, q, cb) ==
  LET i == SubsIndex(subs, q) IN
  IF i = 0 THEN subs
  ELSE LET updatedCallbacks == FilterOut(subs[i].list, cb) IN
       IF updatedCallbacks # <<>>
       THEN [subs EXCEPT ![i].list = updatedCallbacks]
       ELSE RemoveAt(subs, i)


(***************************************************************************)
(* Closure state of one subscribe-like call.  kind is the method that was  *)
(* called; cb is the callback reference stored in the entry (the user's    *)
(* function, or the wrapper that once / onceAsync build); manual is        *)
(* internalSubscribe's manualUnsubscribe; hasRun and assigned are once's   *)
(* hasRun flag and whether its subscription variable is set; handle says   *)
(* whether the caller holds the returned HubSubscription; awaiting counts  *)
(* onceAsync wrapper invocations suspended at await callback(event), and   *)
(* the promises returned by the callback of a plain subscription that are  *)
(* still pending.                                                          *)
(* regAt and unsubAt record the number of events published when the call   *)
(* was made and when handle.unsubscribe() first returned (-1: not yet);    *)
(* regFlushed the number of events already flushed when the call was made; *)
(* replayed the id of the event replayed by the call (0: none); clearedAt   *)
(* the number of events published when reset({clearSubscribers: true})     *)
(* was first called after the call (-1: not yet).                          *)
(***************************************************************************)
nextEv == Len(published)

NewMeta(kind, q, cb, onError, dref, hasRun, assigned, handle, replayLatest, replayed) ==
  [kind |-> kind, query |-> q, cb |-> cb, onError |-> onError,
   manual |-> ~dref, dref |-> dref, hasRun |-> hasRun, assigned |-> assigned,
   handle |-> handle, awaiting |-> 0, replayLatest |-> replayLatest,
   replayed |-> replayed.id, regAt |-> nextEv,
   regFlushed |-> nextEv - Len(eventQueue), unsubAt |-> -1, clearedAt |-> -1,
   tornAt |-> -1]

SubIds == 1..MaxSubs
Allocated == 1..Len(meta)

Step(op, key, id, threw) == [op |-> op, key |-> key, id |-> id, threw |-> threw]

Other == Step("other", EmptyStr, 0, FALSE)

PubOp(id, d) == [op |-> "pub", id |-> id, data |-> d]
NoOp == [op |-> "none", id |-> 0, data |-> "none"]
ClearOp == [op |-> "clear", id |-> 0, data |-> "none"]
ResetOp == [op |-> "reset", id |-> 0, data |-> "none"]

(***************************************************************************)
(* Queued hub: publish                                                     *)
(***************************************************************************)
\* { key, data, timestamp: Date.now() }; id is the identity of the object
NewEvent(k, d) == [key |-> k, data |-> d, timestamp |-> clock, id |-> nextEv + 1]

\* this.eventQueue.update(queue => [...queue, event])
Enqueue(queue, event) == Append(queue, event)

QPublish(k, d) ==
  /\ hub = "queued"
  /\ nextEv < MaxPub
  /\ eventQueue' = Enqueue(eventQueue, NewEvent(k, d))
  /\ published' = Append(published, NewEvent(k, d))
  /\ lastOp' = [lastOp EXCEPT ![k] = PubOp(nextEv + 1, d)]
  /\ last' = Step("publish", k, nextEv + 1, FALSE)
  /\ UNCHANGED <<hub, eventRegistry, subscribers, meta, tasks, syncVars, destroyed, clock,
                 recv, matchVars, untilSignal>>

(***************************************************************************)
(* Queued hub: one invocation of a user callback with event ev, on behalf  *)
(* of subscription s.  A callback that publishes goes through publish.     *)
(***************************************************************************)
QInvoke(s, ev, b) ==
  /\ recv' = [recv EXCEPT ![s] = Append(@, ev.id)]
  /\ IF b.t = "pub"
     THEN /\ nextEv < MaxPub
          /\ eventQueue' = Enqueue(eventQueue, NewEvent(b.key, b.data))
          /\ published' = Append(published, NewEvent(b.key, b.data))
          /\ lastOp' = [lastOp EXCEPT ![b.key] = PubOp(nextEv + 1, b.data)]
     ELSE UNCHANGED <<eventQueue, published, lastOp>>

QNoInvoke == UNCHANGED <<recv, eventQueue, published, lastOp>>

(***************************************************************************)
(* Queued hub: subscribe / on                                              *)
(***************************************************************************)
\* a subscribe that ignores replayLatest
ReplayEventNone(reg, q, replayLatest) == NoEvent

\* this.eventRegistry().get(key): the pattern string itself is looked up
ReplayEvent(reg, q, replayLatest) ==
  IF replayLatest THEN RegGet(reg, q) ELSE NoEvent

QSubscribe(q, cb, dref, replayLatest, onError, b) ==
  /\ hub = "queued"
  /\ Len(meta) < MaxSubs
  /\ dref => ~destroyed
  /\ LET s == Len(meta) + 1
         latestEvent == ReplayEvent(eventRegistry, q, replayLatest)
     IN /\ IF latestEvent # NoEvent
           THEN QInvoke(s, latestEvent, b)
           ELSE b = OkB /\ QNoInvoke
        /\ subscribers' = PushSubscriber(subscribers, q,
                            [cb |-> cb, onError |-> onError, sid |-> s], 0)
        /\ meta' = Append(meta, NewMeta("plain", q, cb, onError, dref, FALSE, TRUE, TRUE,
                                        replayLatest, latestEvent))
        /\ last' = Other
  /\ UNCHANGED <<hub, eventRegistry, tasks, syncVars, destroyed, clock, matchVars, untilSignal>>

(***************************************************************************)
(* Queued hub: once.  With replayLatest the wrapper runs inside subscribe, *)
(* while the subscription variable is still null.                          *)
(***************************************************************************)
QOnce(q, replayLatest, onError, b) ==
  /\ hub = "queued"
  /\ Len(meta) < MaxSubs
  /\ LET s == Len(meta) + 1
         latestEvent == ReplayEvent(eventRegistry, q, replayLatest)
     IN /\ IF latestEvent # NoEvent
           THEN QInvoke(s, latestEvent, b)
           ELSE b = OkB /\ QNoInvoke
        /\ subscribers' = PushSubscriber(subscribers, q,
                            [cb |-> WrapperOf(s), onError |-> onError, sid |-> s], 0)
        /\ meta' = Append(meta, NewMeta("once", q, WrapperOf(s), onError, FALSE,
                                        latestEvent # NoEvent, TRUE, TRUE,
                                        replayLatest, latestEvent))
        /\ last' = Other
  /\ UNCHANGED <<hub, eventRegistry, tasks, syncVars, destroyed, clock, matchVars, untilSignal>>

(***************************************************************************)
(* Queued hub: onceAsync without a replayed event.  subscribeAsync         *)
(* registers the wrapper before it returns; the await in onceAsync assigns *)
(* the subscription variable one microtask later, and the caller receives  *)
(* the handle when onceAsync's own promise has resolved.                   *)
(***************************************************************************)
QOnceAsync(q, onError) ==
  /\ hub = "queued"
  /\ Len(meta) < MaxSubs
  /\ LET s == Len(meta) + 1 IN
        /\ subscribers' = PushSubscriber(subscribers, q,
                            [cb |-> WrapperOf(s), onError |-> onError, sid |-> s], 0)
        /\ meta' = Append(meta, NewMeta("onceAsync", q, WrapperOf(s), onError, FALSE,
                                        FALSE, FALSE, FALSE, FALSE, NoEvent))
        /\ tasks' = Append(tasks, [type |-> "assign", sid |-> s, ev |-> NoEvent])
        /\ last' = Other
  /\ QNoInvoke
  /\ UNCHANGED <<hub, eventRegistry, syncVars, destroyed, clock, matchVars, untilSignal>>

(***************************************************************************)
(* Queued hub: handle.unsubscribe() and the DestroyRef                     *)
(***************************************************************************)
\* the closure returned by internalSubscribe
HandleUnsubscribe(subs, m) ==
  IF m.manual THEN unsubscribe(subs, m.query, m.cb) ELSE subs

QUnsubscribe(s) ==
  /\ hub = "queued"
  /\ s \in Allocated
  /\ meta[s].handle
  /\ subscribers' = HandleUnsubscribe(subscribers, meta[s])
  /\ meta' = [meta EXCEPT ![s].unsubAt = IF @ = -1 THEN nextEv ELSE @]
  /\ last' = Step("unsubscribe", meta[s].query, s, FALSE)
  /\ QNoInvoke
  /\ UNCHANGED <<hub, eventRegistry, tasks, syncVars, destroyed, clock, matchVars, untilSignal>>

RECURSIVE DestroyAll(_, _, _)
\* the onDestroy callbacks, in registration order
DestroyAll(subs, ms, s) ==
  IF s > Len(ms) THEN subs
  ELSE DestroyAll(IF ms[s].dref THEN unsubscribe(subs, ms[s].query, ms[s].cb) ELSE subs,
                  ms, s + 1)

\* the subscriptions whose onDestroy callback runs now; tornAt remembers how
\* many events had been published when it ran
TearDown(ms) ==
  [s \in DOMAIN ms |-> IF ms[s].dref THEN [ms[s] EXCEPT !.tornAt = nextEv] ELSE ms[s]]

QDestroy ==
  /\ hub = "queued"
  /\ ~destroyed
  /\ \E s \in Allocated : meta[s].dref
  /\ destroyed' = TRUE
  /\ subscribers' = DestroyAll(subscribers, meta, 1)
  /\ meta' = TearDown(meta)
  /\ last' = Other
  /\ QNoInvoke
  /\ UNCHANGED <<hub, eventRegistry, tasks, syncVars, clock, matchVars, untilSignal>>

(***************************************************************************)
(* Queued hub: the flush effect and notifySubscribers                      *)
(***************************************************************************)
RECURSIVE NotifyTasks(_, _)
\* notifySubscribers: one promise reaction per entry of every matching query
NotifyTasks(subs, event) ==
  IF subs = <<>> THEN <<>>
  ELSE (IF matchQuery(event.key, Head(subs).query)
        THEN [i \in 1..Len(Head(subs).list) |->
                [type |-> "call", sid |-> Head(subs).list[i].sid, ev |-> event]]
        ELSE <<>>) \o NotifyTasks(Tail(subs), event)

\* a flush that dispatches only the first event of the batch
FlushTasksFirstOnly(subs, queuedEvents) == NotifyTasks(subs, Head(queuedEvents))

RECURSIVE FlushTasks(_, _)
FlushTasks(subs, queuedEvents) ==
  IF queuedEvents = <<>> THEN <<>>
  ELSE NotifyTasks(subs, Head(queuedEvents)) \o FlushTasks(subs, Tail(queuedEvents))

FlushRegistryFirstOnly(reg, queuedEvents) == RegSet(reg, Head(queuedEvents))

\* updatedRegistry after the loop over queuedEvents
FlushRegistry(reg, queuedEvents) == RegSetAll(reg, queuedEvents)

QFlush ==
  /\ hub = "queued"
  /\ eventQueue # <<>>
  /\ eventRegistry' = FlushRegistry(eventRegistry, eventQueue)
  /\ tasks' = tasks \o FlushTasks(subscribers, eventQueue)
  /\ eventQueue' = <<>>
  /\ last' = Other
  /\ UNCHANGED <<hub, subscribers, meta, syncVars, destroyed, clock, published, recv, lastOp,
                 matchVars, untilSignal>>


(***************************************************************************)
(* Queued hub: one promise reaction runs.  A "call" reaction is            *)
(* Promise.resolve().then(() => callback(event)).catch(...) of             *)
(* notifySubscribers, where callback is the entry's function: the user's   *)
(* callback, once's wrapper, or onceAsync's wrapper.                       *)
(***************************************************************************)
\* if (hasRun) return;
OnceWrapperRuns(m) == ~m.hasRun

\* subscription?.unsubscribe() inside a wrapper
WrapperUnsubscribe(subs, m) ==
  IF m.assigned THEN HandleUnsubscribe(subs, m) ELSE subs

\* a dispatcher that awaits each callback before it calls the next one
RemainingBlocked(ts, b) == IF b = PendingB THEN <<>> ELSE Tail(ts)

\* every subscriber has a promise reaction of its own: the ones behind the
\* reaction that ran stay scheduled whatever its callback returned
Remaining(ts, b) == Tail(ts)

QRunTask(b) ==
  /\ hub = "queued"
  /\ tasks # <<>>
  /\ LET t == Head(tasks)
         s == t.sid
         m == meta[s]
     IN
     \/ /\ t.type = "call" /\ m.kind = "plain"
        /\ QInvoke(s, t.ev, b)
        /\ tasks' = Remaining(tasks, b)
        /\ meta' = IF b = PendingB THEN [meta EXCEPT ![s].awaiting = @ + 1] ELSE meta
        /\ UNCHANGED subscribers
     \/ /\ t.type = "call" /\ m.kind = "once" /\ ~OnceWrapperRuns(m)
        /\ b = OkB
        /\ QNoInvoke
        /\ tasks' = Tail(tasks)
        /\ UNCHANGED <<meta, subscribers>>
     \/ /\ t.type = "call" /\ m.kind = "once" /\ OnceWrapperRuns(m)
        /\ meta' = [meta EXCEPT ![s].hasRun = TRUE]
        /\ subscribers' = WrapperUnsubscribe(subscribers, m)
        /\ QInvoke(s, t.ev, b)
        /\ tasks' = Tail(tasks)
     \/ /\ t.type = "call" /\ m.kind = "onceAsync"
        /\ QInvoke(s, t.ev, b)
        /\ meta' = [meta EXCEPT ![s].awaiting = IF b.t = "throw" THEN @ ELSE @ + 1]
        /\ tasks' = Tail(tasks)
        /\ UNCHANGED subscribers
     \/ /\ t.type = "cont"
        /\ b = OkB
        /\ subscribers' = WrapperUnsubscribe(subscribers, m)
        /\ tasks' = Tail(tasks)
        /\ QNoInvoke
        /\ UNCHANGED meta
     \/ /\ t.type = "assign"
        /\ b = OkB
        /\ meta' = [meta EXCEPT ![s].assigned = TRUE]
        /\ tasks' = Append(Tail(tasks), [type |-> "handle", sid |-> s, ev |-> NoEvent])
        /\ QNoInvoke
        /\ UNCHANGED subscribers
     \/ /\ t.type = "handle"
        /\ b = OkB
        /\ meta' = [meta EXCEPT ![s].handle = TRUE]
        /\ tasks' = Tail(tasks)
        /\ QNoInvoke
        /\ UNCHANGED subscribers
  /\ last' = Other
  /\ UNCHANGED <<hub, eventRegistry, syncVars, destroyed, clock, matchVars, untilSignal>>

\* the promise returned by the user's callback resolves: the wrapper of
\* onceAsync resumes after its await
QSettle(s) ==
  /\ hub = "queued"
  /\ s \in Allocated
  /\ meta[s].awaiting > 0
  /\ meta' = [meta EXCEPT ![s].awaiting = @ - 1]
  /\ tasks' = Append(tasks, [type |-> "cont", sid |-> s, ev |-> NoEvent])
  /\ last' = Other
  /\ QNoInvoke
  /\ UNCHANGED <<hub, eventRegistry, subscribers, syncVars, destroyed, clock, matchVars, untilSignal>>

(***************************************************************************)
(* Queued hub: clearEvent, reset, unsubscribeAll                           *)
(***************************************************************************)
QClearEvent(k) ==
  /\ hub = "queued"
  /\ eventRegistry' = RegDelete(eventRegistry, k)
  /\ lastOp' = [lastOp EXCEPT ![k] = ClearOp]
  /\ last' = Other
  /\ UNCHANGED <<hub, eventQueue, subscribers, meta, tasks, syncVars, destroyed, clock, published,
                 recv, matchVars, untilSignal>>

QReset(clearSubscribers) ==
  /\ hub = "queued"
  /\ eventRegistry' = <<>>
  /\ subscribers' = IF clearSubscribers THEN <<>> ELSE subscribers
  /\ lastOp' = [k \in Keys |-> ResetOp]
  /\ last' = Other
  /\ UNCHANGED <<hub, eventQueue, meta, tasks, syncVars, destroyed, clock, published,
                 recv, matchVars, untilSignal>>

(***************************************************************************)
(* Synchronous hub.  subscribers is Map<string, Set<subscriber>>: an entry *)
(* of the Map carries the stamp of the subscription that created its Set,  *)
(* and a Set lists its members in insertion order.  Map.forEach and        *)
(* Set.forEach visit what is present when they get there, in insertion     *)
(* order, including entries added during the loop; a frame of the stack is *)
(* one notifySubscribers call in progress:                                 *)
(*   ev    the event being dispatched                                      *)
(*   mcur  stamp of the Map entry the outer forEach visited last           *)
(*   set   stamp of the Set the inner forEach is in (0: none)              *)
(*   scur  sid of the member the inner forEach visited last                *)
(*   cur   sid of the subscriber whose callback is running and has called  *)
(*         publish (0: none)                                               *)
(***************************************************************************)
NoEntry == [cb |-> 0, onError |-> FALSE, sid |-> 0]

NewFrame(event) == [ev |-> event, mcur |-> 0, set |-> 0, scur |-> 0, cur |-> 0]

StampIndex(subs, stamp) ==
  IF \E i \in DOMAIN subs : subs[i].stamp = stamp
  THEN CHOOSE i \in DOMAIN subs : subs[i].stamp = stamp
  ELSE 0

SetMembers(subs, stamp) ==
  IF StampIndex(subs, stamp) = 0 THEN <<>> ELSE subs[StampIndex(subs, stamp)].list

RECURSIVE Advance(_, _)
\* the loops of notifySubscribers up to the next callback they call
Advance(f, subs) ==
  IF f.set # 0
  THEN LET members == SetMembers(subs, f.set)
           later == {i \in DOMAIN members : members[i].sid > f.scur}
       IN IF later # {}
          THEN LET i == CHOOSE i \in later : \A j \in later : members[i].sid <= members[j].sid
               IN [f |-> [f EXCEPT !.scur = members[i].sid], target |-> members[i]]
          ELSE Advance([f EXCEPT !.set = 0, !.scur = 0], subs)
  ELSE LET later == {i \in DOMAIN subs : subs[i].stamp > f.mcur}
       IN IF later = {} THEN [f |-> f, target |-> NoEntry]
          ELSE LET i == CHOOSE i \in later : \A j \in later : subs[i].stamp <= subs[j].stamp
               IN IF matchQuerySync(f.ev.key, subs[i].query)
                  THEN Advance([f EXCEPT !.mcur = subs[i].stamp, !.set = subs[i].stamp,
                                         !.scur = 0], subs)
                  ELSE Advance([f EXCEPT !.mcur = subs[i].stamp], subs)

RECURSIVE RemoveSid(_, _)
RemoveSid(list, x) ==
  IF list = <<>> THEN <<>>
  ELSE IF Head(list).sid = x THEN RemoveSid(Tail(list), x)
       ELSE <<Head(list)>> \o RemoveSid(Tail(list), x)

\* the unsubscribe closure of internalSubscribe
SyncUnsubscribe(subs, q, x) ==
  LET i == SubsIndex(subs, q) IN
  IF i = 0 THEN subs
  ELSE LET rest == RemoveSid(subs[i].list, x) IN
       IF rest = <<>> THEN RemoveAt(subs, i)
       ELSE [subs EXCEPT ![i].list = rest]

\* subscription?.unsubscribe() at the top of onceCallback
OnceUnsubscribe(subs, m, x) ==
  IF m.assigned THEN SyncUnsubscribe(subs, m.query, x) ELSE subs

\* whether call m of on() was given a string until condition
HasUntil(m) == "until" \in DOMAIN m

\* unsubscribeAll of on(): the unsubscribe of every until condition, then
\* mainSubscription?.unsubscribe()
UnsubscribeAll(subs, m, x) ==
  LET subs1 == IF HasUntil(m) THEN SyncUnsubscribe(subs, m.until, x) ELSE subs
  IN IF m.assigned THEN SyncUnsubscribe(subs1, m.query, x) ELSE subs1

\* whether call m of on() was given a Signal<boolean> until condition; its
\* closure then holds the effect "if (signal()) unsubscribeAll()":
\*   effLive   the effect was created and has not been destroyed
\*   effDirty  the effect is scheduled for the next flush of the effects
\*   sigAtReg  the value of the signal when on() was called
HasSignal(m) == "effLive" \in DOMAIN m

\* unsubscribers.forEach(unsub => unsub()) for the signal condition of call
\* x: effectRef.destroy()
DestroyUntilEffect(ms, x) ==
  IF HasSignal(ms[x]) THEN [ms EXCEPT ![x].effLive = FALSE, ![x].effDirty = FALSE]
  ELSE ms

UntilScheduled(m) == HasSignal(m) /\ m.effLive /\ m.effDirty

\* The Map keeps its entries in the order in which the queries were first
\* inserted: call s inserts the query of its until condition, if new,
\* before the query of its own key.
StopStampOf(s) == 2 * s - 1
StampOf(s) == 2 * s

HandlerOutcomes == {"ok", "throw"}

\* Whether the error of a callback leaves notifySubscribers: handleError
\* calls the handler without a try, and onceCallback's own catch calls
\* handleError too, with the same handler.
ErrorEscapes(kind, onError, h1, h2) ==
  /\ onError
  /\ h1 = "throw"
  /\ kind = "once" => h2 = "throw"

\* the handler outcomes that are read in a handling of an error
HandlersUsed(kind, onError, h1, h2) ==
  /\ ~onError => h1 = "ok"
  /\ (kind # "once" \/ h1 = "ok") => h2 = "ok"

\* how often the error thrown by a callback is passed to handleError: the
\* catch of onceCallback passes it once, and when the handler throws there,
\* the catch around the call of onceCallback passes it again
Routed(kind, onError, h1) ==
  IF kind = "once" /\ onError /\ h1 = "throw" THEN 2 ELSE 1

\* the step record of a callback of subscription s that failed on event ev:
\* mode is "throw" or "reject", routed the number of times the error was
\* passed to the onError of s or to console.warn, and escaped whether an
\* error of the handler left the hub
Failure(s, ev, mode, routed, escaped) ==
  [op |-> "failure", key |-> ev.key, id |-> s, threw |-> escaped,
   ev |-> ev.id, mode |-> mode, routed |-> routed]

\* the stack and the step record once the innermost loop was left by an
\* exception: the caller is the callback below, or the publisher
Unwind(stk) ==
  IF Len(stk) = 1
  THEN /\ stack' = <<>>
       /\ exc' = FALSE
       /\ last' = Step("publish", stk[1].ev.key, stk[1].ev.id, TRUE)
  ELSE /\ stack' = SubSeq(stk, 1, Len(stk) - 1)
       /\ exc' = TRUE
       /\ last' = Other

\* The effect of every live onCombineLatest depends on eventRegistry through
\* its computed signals, and the registry signal's equal is ===: every
\* update or set of the registry notifies the effect, which is then
\* scheduled for the next flush of effects.
NotifyEffects(ms) ==
  IF \A s \in DOMAIN ms : ms[s].kind # "combine" THEN ms
  ELSE [s \in DOMAIN ms |->
          IF ms[s].kind = "combine" /\ ms[s].live THEN [ms[s] EXCEPT !.dirty = TRUE]
          ELSE ms[s]]

\* destroyRef.onDestroy(unsubscribe) of onCombineLatest: effectRef.destroy()
DestroyEffects(ms) ==
  IF \A s \in DOMAIN ms : ms[s].kind # "combine" THEN ms
  ELSE [s \in DOMAIN ms |->
          IF ms[s].kind = "combine" /\ ms[s].dref
          THEN [ms[s] EXCEPT !.live = FALSE, !.dirty = FALSE]
          ELSE ms[s]]

SyncRegistryKeep(reg, event) == reg

\* a registry that is a list of events instead of a Map
SyncRegistryAppend(reg, event) == Append(reg, event)

\* this.eventRegistry.update(registry => new Map(registry).set(key, event))
SyncRegistryWrite(reg, event) == RegSet(reg, event)

SPublish(k, d) ==
  /\ hub = "sync"
  /\ stack = <<>>
  /\ nextEv < MaxPub
  /\ eventRegistry' = SyncRegistryWrite(eventRegistry, NewEvent(k, d))
  /\ stack' = <<NewFrame(NewEvent(k, d))>>
  /\ published' = Append(published, NewEvent(k, d))
  /\ lastOp' = [lastOp EXCEPT ![k] = PubOp(nextEv + 1, d)]
  /\ meta' = NotifyEffects(meta)
  /\ last' = Other
  /\ UNCHANGED <<hub, eventQueue, subscribers, tasks, exc, destroyed, clock,
                 recv, matchVars, untilSignal>>

\* notifySubscribers calls the next callback
SCall(b, h1, h2) ==
  /\ hub = "sync"
  /\ stack # <<>>
  /\ ~exc
  /\ LET n == Len(stack)
         a == Advance(stack[n], subscribers)
         x == a.target.sid
         m == meta[x]
         isStop == a.target.cb = StopOf(x)
         subs1 == IF isStop THEN UnsubscribeAll(subscribers, m, x)
                  ELSE IF m.kind = "once" THEN OnceUnsubscribe(subscribers, m, x)
                  ELSE subscribers
     IN /\ a.target # NoEntry
        /\ isStop => b = OkB
        /\ recv' = IF isStop THEN recv ELSE [recv EXCEPT ![x] = Append(@, a.f.ev.id)]
        /\ subscribers' = subs1
        /\ \/ /\ b = OkB /\ h1 = "ok" /\ h2 = "ok"
              /\ stack' = [stack EXCEPT ![n] = a.f]
              /\ meta' = IF isStop THEN DestroyUntilEffect(meta, x) ELSE meta
              /\ last' = Other
              /\ UNCHANGED <<exc, eventRegistry, tasks, published, lastOp>>
           \/ /\ b = ThrowB
              /\ HandlersUsed(m.kind, a.target.onError, h1, h2)
              /\ IF ErrorEscapes(m.kind, a.target.onError, h1, h2)
                 THEN Unwind(stack)
                 ELSE /\ stack' = [stack EXCEPT ![n] = a.f]
                      /\ last' = Failure(x, a.f.ev, "throw",
                                         Routed(m.kind, a.target.onError, h1), FALSE)
                      /\ UNCHANGED exc
              /\ UNCHANGED <<eventRegistry, meta, tasks, published, lastOp>>
           \/ \* the callback returns a promise that never settles: the
              \* catch reaction attached to it never runs
              /\ b = PendingB /\ h1 = "ok" /\ h2 = "ok"
              /\ stack' = [stack EXCEPT ![n] = a.f]
              /\ meta' = [meta EXCEPT ![x].awaiting = @ + 1]
              /\ last' = Other
              /\ UNCHANGED <<exc, eventRegistry, tasks, published, lastOp>>
           \/ \* the callback returns a promise that rejects: the catch
              \* reaction of notifySubscribers is attached to what the stored
              \* callback returns, and onceCallback returns nothing
              /\ b = RejectB /\ h1 = "ok" /\ h2 = "ok"
              /\ stack' = [stack EXCEPT ![n] = a.f]
              /\ IF m.kind = "once"
                 THEN /\ last' = Failure(x, a.f.ev, "reject", 0, FALSE)
                      /\ UNCHANGED tasks
                 ELSE /\ last' = Other
                      /\ tasks' = Append(tasks, [type |-> "catch", sid |-> x, ev |-> a.f.ev,
                                                 onError |-> a.target.onError])
              /\ UNCHANGED <<exc, eventRegistry, meta, published, lastOp>>
           \/ /\ b.t = "pub" /\ h1 = "ok" /\ h2 = "ok"
              /\ nextEv < MaxPub
              /\ eventRegistry' = SyncRegistryWrite(eventRegistry, NewEvent(b.key, b.data))
              /\ stack' = Append([stack EXCEPT ![n] = [a.f EXCEPT !.cur = x]],
                                 NewFrame(NewEvent(b.key, b.data)))
              /\ published' = Append(published, NewEvent(b.key, b.data))
              /\ lastOp' = [lastOp EXCEPT ![b.key] = PubOp(nextEv + 1, b.data)]
              /\ meta' = NotifyEffects(meta)
              /\ last' = Other
              /\ UNCHANGED <<exc, tasks>>
           \/ \* the callback calls clearEvent(key) or reset() and returns
              /\ b.t \in {"clear", "reset"} /\ h1 = "ok" /\ h2 = "ok"
              /\ eventRegistry' = IF b.t = "clear" THEN RegDelete(eventRegistry, b.key)
                                  ELSE <<>>
              /\ lastOp' = IF b.t = "clear" THEN [lastOp EXCEPT ![b.key] = ClearOp]
                           ELSE [k \in Keys |-> ResetOp]
              /\ stack' = [stack EXCEPT ![n] = a.f]
              /\ meta' = NotifyEffects(meta)
              /\ last' = Other
              /\ UNCHANGED <<exc, tasks, published>>
  /\ UNCHANGED <<hub, eventQueue, destroyed, clock, matchVars, untilSignal>>

\* a microtask: the catch reaction that notifySubscribers attached to a
\* rejected promise calls handleError
SRunReaction(h1) ==
  /\ hub = "sync"
  /\ stack = <<>>
  /\ tasks # <<>>
  /\ LET t == Head(tasks) IN
     /\ ~t.onError => h1 = "ok"
     /\ tasks' = Tail(tasks)
     /\ last' = Failure(t.sid, t.ev, "reject", 1, t.onError /\ h1 = "throw")
  /\ UNCHANGED <<hub, eventQueue, eventRegistry, subscribers, meta, syncVars, destroyed,
                 clock, published, recv, lastOp, matchVars, untilSignal>>

\* both forEach loops are over: notifySubscribers and publish return
SReturn ==
  /\ hub = "sync"
  /\ stack # <<>>
  /\ ~exc
  /\ LET n == Len(stack) IN
     /\ Advance(stack[n], subscribers).target = NoEntry
     /\ IF n = 1
        THEN /\ stack' = <<>>
             /\ last' = Step("publish", stack[1].ev.key, stack[1].ev.id, FALSE)
        ELSE /\ stack' = [SubSeq(stack, 1, n - 1) EXCEPT ![n - 1].cur = 0]
             /\ last' = Other
  /\ UNCHANGED <<hub, eventQueue, eventRegistry, subscribers, meta, tasks, exc, destroyed,
                 clock, published, recv, lastOp, matchVars, untilSignal>>

\* the publish called by the running callback threw: the error goes through
\* that callback into the catch of the loop that called it
SCatch(h1, h2) ==
  /\ hub = "sync"
  /\ stack # <<>>
  /\ exc
  /\ LET n == Len(stack)
         x == stack[n].cur
         m == meta[x]
     IN /\ HandlersUsed(m.kind, m.onError, h1, h2)
        /\ IF ErrorEscapes(m.kind, m.onError, h1, h2)
           THEN Unwind(stack)
           ELSE /\ stack' = [stack EXCEPT ![n].cur = 0]
                /\ exc' = FALSE
                /\ last' = Failure(x, stack[n].ev, "throw",
                                   Routed(m.kind, m.onError, h1), FALSE)
  /\ UNCHANGED <<hub, eventQueue, eventRegistry, subscribers, meta, tasks, destroyed,
                 clock, published, recv, lastOp, matchVars, untilSignal>>

(***************************************************************************)
(* Synchronous hub: on / subscribe, once, handles, DestroyRef              *)
(***************************************************************************)
RECURSIVE LatestMatching(_, _, _)
LatestMatching(reg, query, latestEvent) ==
  IF reg = <<>> THEN latestEvent
  ELSE LatestMatching(Tail(reg), query,
         IF /\ RegexTest(query, Head(reg).key)
            /\ (latestEvent = NoEvent \/ Head(reg).timestamp > latestEvent.timestamp)
         THEN Head(reg) ELSE latestEvent)

findLatestEventForKey(reg, key) ==
  IF ~Includes(key, "*") THEN RegGet(reg, key)
  ELSE LatestMatching(reg, key, NoEvent)

SyncReplayEvent(reg, q, replayLatest) ==
  IF replayLatest THEN findLatestEventForKey(reg, q) ELSE NoEvent

\* on(options) without until.  A replayed callback that throws is handled
\* by handleError; when the handler throws too, on is left before
\* internalSubscribe and nothing is registered.  The promise that a replayed
\* async callback returns is dropped.
SOn(q, cb, dref, replayLatest, onError, b, h1) ==
  /\ hub = "sync"
  /\ stack = <<>>
  /\ Len(meta) < MaxSubs
  /\ dref => ~destroyed
  /\ b \in {OkB, ThrowB, RejectB}
  /\ LET s == Len(meta) + 1
         latestEvent == SyncReplayEvent(eventRegistry, q, replayLatest)
         thrown == latestEvent # NoEvent /\ b = ThrowB
         failed == thrown /\ ErrorEscapes("plain", onError, h1, "ok")
     IN /\ IF latestEvent # NoEvent
           THEN recv' = [recv EXCEPT ![s] = Append(@, latestEvent.id)]
           ELSE b = OkB /\ UNCHANGED recv
        /\ IF thrown THEN HandlersUsed("plain", onError, h1, "ok") ELSE h1 = "ok"
        /\ subscribers' =
             IF failed THEN subscribers
             ELSE PushSubscriber(subscribers, q,
                                 [cb |-> cb, onError |-> onError, sid |-> s], StampOf(s))
        /\ meta' = Append(meta, NewMeta(IF failed THEN "failed" ELSE "plain", q, cb,
                                        onError, dref /\ ~failed, FALSE, ~failed, ~failed,
                                        replayLatest, latestEvent))
        /\ last' = IF thrown THEN Failure(s, latestEvent, "throw", 1, failed)
                   ELSE IF b = RejectB THEN Failure(s, latestEvent, "reject", 0, FALSE)
                   ELSE Other
  /\ UNCHANGED <<hub, eventQueue, eventRegistry, tasks, syncVars, destroyed, clock,
                 published, lastOp, matchVars, untilSignal>>

\* on(options) with until: stopq, a string condition other than the key.
\* The condition is subscribed first, with unsubscribeAll as its callback;
\* when the replay leaves on() with an error the condition stays subscribed.
SOnUntil(q, stopq, dref, replayLatest, onError, b, h1) ==
  /\ hub = "sync"
  /\ stack = <<>>
  /\ Len(meta) < MaxSubs
  /\ dref => ~destroyed
  /\ stopq # q
  /\ b \in {OkB, ThrowB, RejectB}
  /\ LET s == Len(meta) + 1
         latestEvent == SyncReplayEvent(eventRegistry, q, replayLatest)
         thrown == latestEvent # NoEvent /\ b = ThrowB
         failed == thrown /\ ErrorEscapes("plain", onError, h1, "ok")
         subs1 == PushSubscriber(subscribers, stopq,
                                 [cb |-> StopOf(s), onError |-> FALSE, sid |-> s],
                                 StopStampOf(s))
     IN /\ IF latestEvent # NoEvent
           THEN recv' = [recv EXCEPT ![s] = Append(@, latestEvent.id)]
           ELSE b = OkB /\ UNCHANGED recv
        /\ IF thrown THEN HandlersUsed("plain", onError, h1, "ok") ELSE h1 = "ok"
        /\ subscribers' =
             IF failed THEN subs1
             ELSE PushSubscriber(subs1, q, [cb |-> 1, onError |-> onError, sid |-> s],
                                 StampOf(s))
        /\ meta' = Append(meta,
                          [until |-> stopq]
                          @@ NewMeta(IF failed THEN "failed" ELSE "plain", q, 1, onError,
                                     dref /\ ~failed, FALSE, ~failed, ~failed,
                                     replayLatest, latestEvent))
        /\ last' = IF thrown THEN Failure(s, latestEvent, "throw", 1, failed)
                   ELSE IF b = RejectB THEN Failure(s, latestEvent, "reject", 0, FALSE)
                   ELSE Other
  /\ UNCHANGED <<hub, eventQueue, eventRegistry, tasks, syncVars, destroyed, clock,
                 published, lastOp, matchVars, untilSignal>>

\* signals.some(signal => signal()) for the one signal condition
SomeSignalTrueSkipped(sig) == FALSE

SomeSignalTrue(sig) == sig

\* the string conditions given next to the signal: none or one
StopLists == {<<>>, <<KeyAC>>}

RECURSIVE PushStops(_, _, _)
\* internalSubscribe(condition, unsubscribeAll, undefined, undefined, true)
\* for every string condition
PushStops(subs, stops, s) ==
  IF stops = <<>> THEN subs
  ELSE PushStops(PushSubscriber(subs, Head(stops),
                                [cb |-> StopOf(s), onError |-> FALSE, sid |-> s],
                                StopStampOf(s)),
                 Tail(stops), s)

\* on(options) with until: [...stops, signal].  When the signal is already
\* true on() returns { unsubscribe: () => {} } before anything else; else
\* the string conditions are subscribed, an effect on the signal is
\* created, the latest event is replayed and the key is subscribed.
SOnUntilSignal(q, stops, replayLatest, onError, b, h1) ==
  /\ hub = "sync"
  /\ stack = <<>>
  /\ Len(meta) < MaxSubs
  /\ \A i \in DOMAIN stops : stops[i] # q
  /\ b \in {OkB, ThrowB, RejectB}
  /\ LET s == Len(meta) + 1
         inert == SomeSignalTrue(untilSignal)
         latestEvent == IF inert THEN NoEvent
                        ELSE SyncReplayEvent(eventRegistry, q, replayLatest)
         thrown == latestEvent # NoEvent /\ b = ThrowB
         failed == thrown /\ ErrorEscapes("plain", onError, h1, "ok")
         subs1 == PushStops(subscribers, stops, s)
         closure == IF stops # <<>> /\ ~inert
                    THEN [effLive |-> TRUE, effDirty |-> TRUE, sigAtReg |-> untilSignal,
                          until |-> stops[1]]
                    ELSE [effLive |-> ~inert, effDirty |-> ~inert, sigAtReg |-> untilSignal]
     IN /\ IF latestEvent # NoEvent
           THEN recv' = [recv EXCEPT ![s] = Append(@, latestEvent.id)]
           ELSE b = OkB /\ UNCHANGED recv
        /\ IF thrown THEN HandlersUsed("plain", onError, h1, "ok") ELSE h1 = "ok"
        /\ subscribers' =
             IF inert THEN subscribers
             ELSE IF failed THEN subs1
             ELSE PushSubscriber(subs1, q, [cb |-> 1, onError |-> onError, sid |-> s],
                                 StampOf(s))
        /\ meta' = Append(meta,
                          closure
                          @@ NewMeta(IF inert THEN "inert"
                                     ELSE IF failed THEN "failed" ELSE "plain",
                                     q, 1, onError, FALSE, FALSE,
                                     ~failed /\ ~inert, ~failed, replayLatest, latestEvent))
        /\ last' = IF thrown THEN Failure(s, latestEvent, "throw", 1, failed)
                   ELSE IF b = RejectB /\ latestEvent # NoEvent
                   THEN Failure(s, latestEvent, "reject", 0, FALSE)
                   ELSE Other
  /\ UNCHANGED <<hub, eventQueue, eventRegistry, tasks, syncVars, destroyed, clock,
                 published, lastOp, matchVars, untilSignal>>

\* signal.set(v) by the owner of the until signal: a write of a different
\* value schedules the effects that read the signal
SSetSignal(v) ==
  /\ hub = "sync"
  /\ stack = <<>>
  /\ untilSignal' = v
  /\ meta' = IF v = untilSignal \/ \A s \in DOMAIN meta : ~HasSignal(meta[s]) THEN meta
             ELSE [s \in DOMAIN meta |->
                     IF HasSignal(meta[s]) /\ meta[s].effLive
                     THEN [meta[s] EXCEPT !.effDirty = TRUE] ELSE meta[s]]
  /\ last' = Step("signal", EmptyStr, 0, FALSE)
  /\ UNCHANGED <<hub, eventQueue, eventRegistry, subscribers, tasks, syncVars, destroyed,
                 clock, published, recv, lastOp, matchVars>>

\* once(options) without until: on() is called with onceCallback, and the
\* subscription variable is assigned when on() has returned.
SOnce(q, replayLatest, onError, b, h1, h2) ==
  /\ hub = "sync"
  /\ stack = <<>>
  /\ Len(meta) < MaxSubs
  /\ b \in {OkB, ThrowB, RejectB}
  /\ LET s == Len(meta) + 1
         latestEvent == SyncReplayEvent(eventRegistry, q, replayLatest)
         thrown == latestEvent # NoEvent /\ b = ThrowB
         failed == thrown /\ ErrorEscapes("once", onError, h1, h2)
     IN /\ IF latestEvent # NoEvent
           THEN recv' = [recv EXCEPT ![s] = Append(@, latestEvent.id)]
           ELSE b = OkB /\ UNCHANGED recv
        /\ IF thrown THEN HandlersUsed("once", onError, h1, h2) ELSE h1 = "ok" /\ h2 = "ok"
        /\ subscribers' =
             IF failed THEN subscribers
             ELSE PushSubscriber(subscribers, q,
                                 [cb |-> WrapperOf(s), onError |-> onError, sid |-> s],
                                 StampOf(s))
        /\ meta' = Append(meta, NewMeta(IF failed THEN "failed" ELSE "once", q,
                                        WrapperOf(s), onError, FALSE, FALSE, ~failed, ~failed,
                                        replayLatest, latestEvent))
        /\ last' = IF thrown
                   THEN Failure(s, latestEvent, "throw", Routed("once", onError, h1), failed)
                   ELSE IF b = RejectB THEN Failure(s, latestEvent, "reject", 0, FALSE)
                   ELSE Other
  /\ UNCHANGED <<hub, eventQueue, eventRegistry, tasks, syncVars, destroyed, clock,
                 published, lastOp, matchVars, untilSignal>>

SUnsubscribe(s) ==
  /\ hub = "sync"
  /\ stack = <<>>
  /\ s \in Allocated
  /\ meta[s].handle
  /\ meta[s].kind # "combine"
  /\ subscribers' = IF meta[s].kind = "inert" THEN subscribers
                    ELSE UnsubscribeAll(subscribers, meta[s], s)
  /\ meta' = [DestroyUntilEffect(meta, s) EXCEPT ![s].unsubAt = IF @ = -1 THEN nextEv ELSE @]
  /\ last' = Step("unsubscribe", meta[s].query, s, FALSE)
  /\ UNCHANGED <<hub, eventQueue, eventRegistry, tasks, syncVars, destroyed, clock,
                 published, recv, lastOp, matchVars, untilSignal>>

RECURSIVE SyncDestroyAll(_, _, _)
SyncDestroyAll(subs, ms, s) ==
  IF s > Len(ms) THEN subs
  ELSE SyncDestroyAll(IF ms[s].dref THEN SyncUnsubscribe(subs, ms[s].query, s) ELSE subs,
                      ms, s + 1)

SDestroy ==
  /\ hub = "sync"
  /\ stack = <<>>
  /\ ~destroyed
  /\ \E s \in Allocated : meta[s].dref
  /\ destroyed' = TRUE
  /\ subscribers' = SyncDestroyAll(subscribers, meta, 1)
  /\ meta' = TearDown(DestroyEffects(meta))
  /\ last' = Other
  /\ UNCHANGED <<hub, eventQueue, eventRegistry, tasks, syncVars, clock,
                 published, recv, lastOp, matchVars, untilSignal>>

SClearEvent(k) ==
  /\ hub = "sync"
  /\ stack = <<>>
  /\ eventRegistry' = RegDelete(eventRegistry, k)
  /\ meta' = NotifyEffects(meta)
  /\ lastOp' = [lastOp EXCEPT ![k] = ClearOp]
  /\ last' = Other
  /\ UNCHANGED <<hub, eventQueue, subscribers, tasks, syncVars, destroyed, clock,
                 published, recv, matchVars, untilSignal>>

\* the subscribe-like calls made so far have seen a reset that clears the
\* subscribers
MarkCleared(ms) ==
  IF ms = <<>> THEN ms
  ELSE [s \in DOMAIN ms |-> [ms[s] EXCEPT !.clearedAt = IF @ = -1 THEN nextEv ELSE @]]

SReset(clearSubscribers) ==
  /\ hub = "sync"
  /\ stack = <<>>
  /\ eventRegistry' = <<>>
  /\ subscribers' = IF clearSubscribers THEN <<>> ELSE subscribers
  /\ meta' = NotifyEffects(IF clearSubscribers THEN MarkCleared(meta) ELSE meta)
  /\ lastOp' = [k \in Keys |-> ResetOp]
  /\ last' = Other
  /\ UNCHANGED <<hub, eventQueue, tasks, syncVars, destroyed, clock,
                 published, recv, matchVars, untilSignal>>

(***************************************************************************)
(* Synchronous hub: onCombineLatest.  The call builds one computed signal  *)
(* per key (toSignal), a computed combinedSignal over them, and an effect  *)
(* that reads combinedSignal and calls the callback.  The effect is not an *)
(* entry of the subscribers Map.  Its closure adds to the record of the    *)
(* call:                                                                   *)
(*   keys      the requested keys                                          *)
(*   live      the effect has not been destroyed                           *)
(*   dirty     the effect is scheduled: it was created, or a signal it     *)
(*             depends on was written, since the effects were last flushed *)
(*   first     the effect has never run                                    *)
(*   seenSrc   the values of the per-key signals when they were last read  *)
(*   seenNull  combinedSignal was null when it was last computed           *)
(*   readsReg  the last run of the effect read this.eventRegistry() itself *)
(* An effect runs when the effects are flushed (a scheduling tick), never  *)
(* inside the call that wrote the signal.                                  *)
(***************************************************************************)
\* sourceSignals.map(s => s()): registry.get(key) ?? null for each key
SourceValues(reg, keys) == [i \in DOMAIN keys |-> RegGet(reg, keys[i])]

\* the value of combinedSignal; NoEvents stands for null
NoEvents == <<>>

RECURSIVE FilterNonNull(_)
FilterNonNull(events) ==
  IF events = <<>> THEN <<>>
  ELSE IF Head(events) = NoEvent THEN FilterNonNull(Tail(events))
       ELSE <<Head(events)>> \o FilterNonNull(Tail(events))

\* a combinedSignal without the test events.length === keys.length
combinedSignalPartial(reg, keys) == FilterNonNull(SourceValues(reg, keys))

combinedSignal(reg, keys) ==
  LET events == FilterNonNull(SourceValues(reg, keys)) IN
  IF Len(events) = Len(keys) THEN events ELSE NoEvents

\* the key lists passed to onCombineLatest (no sortBy)
KeyLists == {<<KeyAB>>, <<KeyAB, KeyAC>>}

SOnCombineLatest(keys, dref, replayLatest, onError) ==
  /\ hub = "sync"
  /\ stack = <<>>
  /\ Len(meta) < MaxSubs
  /\ dref => ~destroyed
  /\ meta' = Append(meta,
                    [keys |-> keys, live |-> TRUE, dirty |-> TRUE, first |-> TRUE,
                     seenSrc |-> <<>>, seenNull |-> TRUE, readsReg |-> FALSE]
                    @@ NewMeta("combine", EmptyStr, 1, onError, dref, FALSE, TRUE, TRUE,
                               replayLatest, NoEvent))
  /\ last' = Other
  /\ UNCHANGED <<hub, eventQueue, eventRegistry, subscribers, tasks, syncVars, destroyed,
                 clock, published, recv, lastOp, matchVars, untilSignal>>

\* whether a scheduled effect runs again: a producer it read in its last
\* run has a new value (a recomputed combinedSignal is a new array unless
\* it is null again; the registry is a new Map after every write)
EffectMustRun(m, reg) ==
  \/ m.first
  \/ m.readsReg
  \/ /\ SourceValues(reg, m.keys) # m.seenSrc
     /\ ~(m.seenNull /\ combinedSignal(reg, m.keys) = NoEvents)

\* whether the body of the effect reaches callback(combinedEvents)
EffectInvokes(m, reg) ==
  /\ combinedSignal(reg, m.keys) # NoEvents
  /\ ~(~m.replayLatest /\ reg = <<>>)

\* the closure of the effect after it was polled, and run if it must
AfterEffect(m, reg) ==
  LET combinedEvents == combinedSignal(reg, m.keys) IN
  [m EXCEPT !.dirty = FALSE,
            !.first = FALSE,
            !.seenSrc = SourceValues(reg, m.keys),
            !.seenNull = combinedEvents = NoEvents,
            !.readsReg = IF EffectMustRun(m, reg)
                         THEN combinedEvents # NoEvents /\ ~m.replayLatest
                         ELSE @]

Scheduled(m) == m.kind = "combine" /\ m.live /\ m.dirty

\* the subscriptions whose callback a flush of the effects calls
Invoked(ms, reg) ==
  {s \in DOMAIN ms : /\ Scheduled(ms[s])
                      /\ EffectMustRun(ms[s], reg)
                      /\ EffectInvokes(ms[s], reg)}

\* the effect of an until signal runs: if (signal()) unsubscribeAll()
AfterUntilEffect(m, sig) ==
  [m EXCEPT !.effDirty = FALSE, !.effLive = IF sig THEN FALSE ELSE @]

RECURSIVE UntilEffectsUnsubscribe(_, _, _, _)
\* the subscribers Map after the scheduled until effects have run
UntilEffectsUnsubscribe(subs, ms, sig, s) ==
  IF s > Len(ms) THEN subs
  ELSE UntilEffectsUnsubscribe(
         IF UntilScheduled(ms[s]) /\ sig THEN UnsubscribeAll(subs, ms[s], s) ELSE subs,
         ms, sig, s + 1)

\* One flush of the scheduled effects, in the order of their creation.
\* bs gives what each callback does (return or throw) and hs what each
\* onError handler does; an error of the handler leaves the effect and is
\* reported by the framework, and the flush goes on.
SFlushEffects(bs, hs) ==
  /\ hub = "sync"
  /\ stack = <<>>
  /\ \E s \in Allocated : Scheduled(meta[s]) \/ UntilScheduled(meta[s])
  /\ LET invoked == Invoked(meta, eventRegistry) IN
     /\ \A s \in invoked : Len(recv[s]) < MaxCalls
     /\ \A s \in SubIds :
          /\ bs[s] \in {OkB, ThrowB}
          /\ s \notin invoked => bs[s] = OkB
          /\ ~(s \in invoked /\ bs[s] = ThrowB /\ meta[s].onError) => hs[s] = "ok"
     /\ meta' = [s \in DOMAIN meta |->
                   IF Scheduled(meta[s]) THEN AfterEffect(meta[s], eventRegistry)
                   ELSE IF UntilScheduled(meta[s])
                   THEN AfterUntilEffect(meta[s], untilSignal)
                   ELSE meta[s]]
     /\ subscribers' = UntilEffectsUnsubscribe(subscribers, meta, untilSignal, 1)
     /\ recv' = [s \in SubIds |->
                   IF s \in invoked
                   THEN Append(recv[s], combinedSignal(eventRegistry, meta[s].keys))
                   ELSE recv[s]]
     /\ last' = [op |-> "effects", key |-> EmptyStr, id |-> 0,
                 threw |-> \E s \in invoked : hs[s] = "throw",
                 invoked |-> invoked,
                 failed |-> {s \in invoked : bs[s] = ThrowB},
                 handled |-> {s \in invoked : bs[s] = ThrowB /\ meta[s].onError}]
  /\ UNCHANGED <<hub, eventQueue, eventRegistry, tasks, syncVars, destroyed,
                 clock, published, lastOp, matchVars, untilSignal>>

\* unsubscribe() of the handle returned by onCombineLatest
SCombineUnsubscribe(s) ==
  /\ hub = "sync"
  /\ stack = <<>>
  /\ s \in Allocated
  /\ meta[s].kind = "combine"
  /\ meta[s].live
  /\ meta' = [meta EXCEPT ![s].live = FALSE, ![s].dirty = FALSE,
                          ![s].unsubAt = IF @ = -1 THEN nextEv ELSE @]
  /\ last' = Step("unsubscribe", EmptyStr, s, FALSE)
  /\ UNCHANGED <<hub, eventQueue, eventRegistry, subscribers, tasks, syncVars, destroyed,
                 clock, published, recv, lastOp, matchVars, untilSignal>>

(***************************************************************************)
(* Legacy bus (SignalBusService).  Its flush effect calls the callbacks    *)
(* itself, inside the loop over the queued events, so a flush in progress  *)
(* is a frame of the stack:                                                *)
(*   queued   the array read from eventQueue when the effect started       *)
(*   i        index of the event being dispatched                          *)
(*   updated  the local updatedRegistry                                    *)
(*   mcur     stamp of the Map entry the outer forEach visited last        *)
(*   arr, idx the array the inner forEach is in (its length is taken when  *)
(*            forEach starts) and the index it visited last                *)
(***************************************************************************)
LEmit(k, d) ==
  /\ hub = "legacy"
  /\ stack = <<>>
  /\ nextEv < MaxPub
  /\ eventQueue' = Enqueue(eventQueue, NewEvent(k, d))
  /\ published' = Append(published, NewEvent(k, d))
  /\ lastOp' = [lastOp EXCEPT ![k] = PubOp(nextEv + 1, d)]
  /\ last' = Step("publish", k, nextEv + 1, FALSE)
  /\ UNCHANGED <<hub, eventRegistry, subscribers, meta, tasks, syncVars, destroyed, clock,
                 recv, matchVars, untilSignal>>

LSubscribe(q, cb, dref) ==
  /\ hub = "legacy"
  /\ stack = <<>>
  /\ Len(meta) < MaxSubs
  /\ dref => ~destroyed
  /\ LET s == Len(meta) + 1 IN
     /\ subscribers' = PushSubscriber(subscribers, q,
                         [cb |-> cb, onError |-> FALSE, sid |-> s], s)
     /\ meta' = Append(meta, NewMeta("plain", q, cb, FALSE, dref, FALSE, TRUE, TRUE,
                                     FALSE, NoEvent))
  /\ last' = Other
  /\ UNCHANGED <<hub, eventQueue, eventRegistry, tasks, syncVars, destroyed, clock,
                 published, recv, lastOp, matchVars, untilSignal>>

LUnsubscribe(s) ==
  /\ hub = "legacy"
  /\ stack = <<>>
  /\ s \in Allocated
  /\ meta[s].handle
  /\ subscribers' = HandleUnsubscribe(subscribers, meta[s])
  /\ meta' = [meta EXCEPT ![s].unsubAt = IF @ = -1 THEN nextEv ELSE @]
  /\ last' = Step("unsubscribe", meta[s].query, s, FALSE)
  /\ UNCHANGED <<hub, eventQueue, eventRegistry, tasks, syncVars, destroyed, clock,
                 published, recv, lastOp, matchVars, untilSignal>>

LDestroy ==
  /\ hub = "legacy"
  /\ stack = <<>>
  /\ ~destroyed
  /\ \E s \in Allocated : meta[s].dref
  /\ destroyed' = TRUE
  /\ subscribers' = DestroyAll(subscribers, meta, 1)
  /\ meta' = TearDown(meta)
  /\ last' = Other
  /\ UNCHANGED <<hub, eventQueue, eventRegistry, tasks, syncVars, clock,
                 published, recv, lastOp, matchVars, untilSignal>>

LDrop(k) ==
  /\ hub = "legacy"
  /\ stack = <<>>
  /\ eventRegistry' = RegDelete(eventRegistry, k)
  /\ lastOp' = [lastOp EXCEPT ![k] = ClearOp]
  /\ last' = Other
  /\ UNCHANGED <<hub, eventQueue, subscribers, meta, tasks, syncVars, destroyed, clock,
                 published, recv, matchVars, untilSignal>>

LReset ==
  /\ hub = "legacy"
  /\ stack = <<>>
  /\ eventRegistry' = <<>>
  /\ lastOp' = [k \in Keys |-> ResetOp]
  /\ last' = Other
  /\ UNCHANGED <<hub, eventQueue, subscribers, meta, tasks, syncVars, destroyed, clock,
                 published, recv, matchVars, untilSignal>>

RECURSIVE LAdvance(_, _)
\* the loops of the flush effect up to the next callback they call
LAdvance(f, subs) ==
  IF f.idx < Len(f.arr)
  THEN [f |-> [f EXCEPT !.idx = @ + 1], target |-> f.arr[f.idx + 1]]
  ELSE LET later == {i \in DOMAIN subs : subs[i].stamp > f.mcur} IN
       IF later # {}
       THEN LET i == CHOOSE i \in later : \A j \in later : subs[i].stamp <= subs[j].stamp
            IN LAdvance([f EXCEPT !.mcur = subs[i].stamp,
                                  !.arr = IF matchQuery(f.queued[f.i].key, subs[i].query)
                                          THEN subs[i].list ELSE <<>>,
                                  !.idx = 0], subs)
       ELSE IF f.i < Len(f.queued)
            THEN LAdvance([f EXCEPT !.i = @ + 1,
                                    !.updated = RegSet(@, f.queued[f.i + 1]),
                                    !.mcur = 0, !.arr = <<>>, !.idx = 0], subs)
            ELSE [f |-> f, target |-> NoEntry]

\* the effect starts: it reads the queue and the registry
LFlushStart ==
  /\ hub = "legacy"
  /\ stack = <<>>
  /\ eventQueue # <<>>
  /\ stack' = <<[queued |-> eventQueue, i |-> 1,
                 updated |-> RegSet(eventRegistry, eventQueue[1]),
                 mcur |-> 0, arr |-> <<>>, idx |-> 0]>>
  /\ last' = Other
  /\ UNCHANGED <<hub, eventQueue, eventRegistry, subscribers, meta, tasks, exc, destroyed,
                 clock, published, recv, lastOp, matchVars, untilSignal>>

\* notifySubscribers calls the next callback inside try / catch
LCall(b) ==
  /\ hub = "legacy"
  /\ stack # <<>>
  /\ LET a == LAdvance(stack[1], subscribers) IN
     /\ a.target # NoEntry
     /\ recv' = [recv EXCEPT ![a.target.sid] = Append(@, a.f.queued[a.f.i].id)]
     /\ stack' = <<a.f>>
     /\ IF b.t = "pub"
        THEN /\ nextEv < MaxPub
             /\ eventQueue' = Enqueue(eventQueue, NewEvent(b.key, b.data))
             /\ published' = Append(published, NewEvent(b.key, b.data))
             /\ lastOp' = [lastOp EXCEPT ![b.key] = PubOp(nextEv + 1, b.data)]
             /\ UNCHANGED eventRegistry
        ELSE IF b.t \in {"clear", "reset"}
        THEN \* the callback calls drop(key) or reset(): both write the
             \* eventRegistry signal, not the effect's local updatedRegistry
             /\ eventRegistry' = IF b.t = "clear" THEN RegDelete(eventRegistry, b.key)
                                 ELSE <<>>
             /\ lastOp' = IF b.t = "clear" THEN [lastOp EXCEPT ![b.key] = ClearOp]
                          ELSE [k \in Keys |-> ResetOp]
             /\ UNCHANGED <<eventQueue, published>>
        ELSE UNCHANGED <<eventQueue, published, lastOp, eventRegistry>>
  /\ last' = Other
  /\ UNCHANGED <<hub, subscribers, meta, tasks, exc, destroyed,
                 clock, matchVars, untilSignal>>

\* this.eventRegistry.set(updatedRegistry); this.eventQueue.set([])
LFlushEnd ==
  /\ hub = "legacy"
  /\ stack # <<>>
  /\ LET a == LAdvance(stack[1], subscribers) IN
     /\ a.target = NoEntry
     /\ eventRegistry' = a.f.updated
  /\ eventQueue' = <<>>
  /\ stack' = <<>>
  /\ last' = Other
  /\ UNCHANGED <<hub, subscribers, meta, tasks, exc, destroyed,
                 clock, published, recv, lastOp, matchVars, untilSignal>>

(***************************************************************************)
(* Initial state and next-state relation                                   *)
(***************************************************************************)
InitHub(h) ==
  /\ hub = h
  /\ eventQueue = <<>>
  /\ eventRegistry = <<>>
  /\ subscribers = <<>>
  /\ meta = <<>>
  /\ tasks = <<>>
  /\ stack = <<>>
  /\ exc = FALSE
  /\ clock = 0
  /\ destroyed = FALSE
  /\ published = <<>>
  /\ recv = [s \in SubIds |-> <<>>]
  /\ last = Step("init", EmptyStr, 0, FALSE)
  /\ lastOp = [k \in Keys |-> NoOp]
  /\ mkey = EmptyStr /\ mquery = EmptyStr /\ mres = "unset"
  /\ untilSignal = FALSE

\* The full next-state relations of the three services.  The
\* specifications checked below take their actions from these relations
\* with inputs restricted to the cases under study.
NextQ ==
  \/ \E k \in Keys, d \in Data : QPublish(k, d)
  \/ \E q \in Queries, cb \in Callbacks, dref \in BOOLEAN, r \in BOOLEAN,
        oe \in BOOLEAN, b \in Behaviours : QSubscribe(q, cb, dref, r, oe, b)
  \/ \E q \in Queries, r \in BOOLEAN, oe \in BOOLEAN, b \in Behaviours : QOnce(q, r, oe, b)
  \/ \E q \in Queries, oe \in BOOLEAN : QOnceAsync(q, oe)
  \/ \E s \in SubIds : QUnsubscribe(s)
  \/ QDestroy
  \/ QFlush
  \/ \E b \in Behaviours \cup {PendingB} : QRunTask(b)
  \/ \E s \in SubIds : QSettle(s)
  \/ \E k \in Keys : QClearEvent(k)
  \/ \E c \in BOOLEAN : QReset(c)

SpecQ == InitHub("queued") /\ [][NextQ]_vars

NextS ==
  \/ \E k \in Keys, d \in Data : SPublish(k, d)
  \/ \E b \in Behaviours \cup {RejectB, PendingB}, h1 \in HandlerOutcomes,
        h2 \in HandlerOutcomes : SCall(b, h1, h2)
  \/ SReturn
  \/ \E h1 \in HandlerOutcomes, h2 \in HandlerOutcomes : SCatch(h1, h2)
  \/ \E q \in Queries, cb \in Callbacks, dref \in BOOLEAN, r \in BOOLEAN, oe \in BOOLEAN,
        b \in Behaviours, h1 \in HandlerOutcomes : SOn(q, cb, dref, r, oe, b, h1)
  \/ \E q \in Queries, r \in BOOLEAN, oe \in BOOLEAN, b \in Behaviours,
        h1 \in HandlerOutcomes, h2 \in HandlerOutcomes : SOnce(q, r, oe, b, h1, h2)
  \/ \E q \in Queries, stopq \in Queries, dref \in BOOLEAN, r \in BOOLEAN, oe \in BOOLEAN,
        b \in Behaviours, h1 \in HandlerOutcomes : SOnUntil(q, stopq, dref, r, oe, b, h1)
  \/ \E q \in Queries, stops \in StopLists, r \in BOOLEAN, oe \in BOOLEAN,
        b \in Behaviours, h1 \in HandlerOutcomes : SOnUntilSignal(q, stops, r, oe, b, h1)
  \/ \E v \in BOOLEAN : SSetSignal(v)
  \/ \E keys \in KeyLists, dref \in BOOLEAN, r \in BOOLEAN, oe \in BOOLEAN :
        SOnCombineLatest(keys, dref, r, oe)
  \/ \E bs \in [SubIds -> {OkB, ThrowB}], hs \in [SubIds -> HandlerOutcomes] :
        SFlushEffects(bs, hs)
  \/ \E h1 \in HandlerOutcomes : SRunReaction(h1)
  \/ \E s \in SubIds : SUnsubscribe(s)
  \/ \E s \in SubIds : SCombineUnsubscribe(s)
  \/ SDestroy
  \/ \E k \in Keys : SClearEvent(k)
  \/ \E c \in BOOLEAN : SReset(c)

SpecS == InitHub("sync") /\ [][NextS]_vars

NextL ==
  \/ \E k \in Keys, d \in Data : LEmit(k, d)
  \/ \E q \in Queries, cb \in Callbacks, dref \in BOOLEAN : LSubscribe(q, cb, dref)
  \/ \E s \in SubIds : LUnsubscribe(s)
  \/ LDestroy
  \/ \E k \in Keys : LDrop(k)
  \/ LReset
  \/ LFlushStart
  \/ \E b \in Behaviours : LCall(b)
  \/ LFlushEnd

SpecL == InitHub("legacy") /\ [][NextL]_vars


(***************************************************************************)
(* matchQuery on its own: the initial state draws a key and a pattern, and *)
(* the one action evaluates matchQuery of the queued hub on them.          *)
(***************************************************************************)
BoolStr(v) == IF v THEN "true" ELSE "false"

InitMatch ==
  /\ hub = "match"
  /\ eventQueue = <<>>
  /\ eventRegistry = <<>>
  /\ subscribers = <<>>
  /\ meta = <<>>
  /\ tasks = <<>>
  /\ stack = <<>>
  /\ exc = FALSE
  /\ clock = 0
  /\ destroyed = FALSE
  /\ published = <<>>
  /\ recv = [s \in SubIds |-> <<>>]
  /\ last = Step("init", EmptyStr, 0, FALSE)
  /\ lastOp = [k \in Keys |-> NoOp]
  /\ mkey \in StrsUpTo(MaxKeyLen)
  /\ mquery \in StrsUpTo(MaxQueryLen)
  /\ mres = "unset"
  /\ untilSignal = FALSE

EvalMatchQuery ==
  /\ hub = "match"
  /\ mres = "unset"
  /\ mres' = BoolStr(matchQuery(mkey, mquery))
  /\ UNCHANGED <<hub, eventQueue, eventRegistry, subscribers, meta, tasks, stack, exc,
                 destroyed, clock, published, recv, last, lastOp, mkey, mquery, untilSignal>>

NextMatch == EvalMatchQuery

SpecMatch == InitMatch /\ [][NextMatch]_vars

(***************************************************************************)
(* C10.  The Key Matcher as specified: equal strings match, the pattern    *)
(* "*" matches, and when both strings contain ":" each is split at its     *)
(* first ":" into (head, rest) and they match when the heads are equal and *)
(* the pattern's rest is exactly "*".                                      *)
(***************************************************************************)
HeadOf(str) == SubSeq(str, 1, FirstIndexOf(str, ":") - 1)
RestOf(str) == SubSeq(str, FirstIndexOf(str, ":") + 1, Len(str))

KeyMatcher(key, pattern) ==
  \/ pattern = key
  \/ pattern = StarStr
  \/ /\ Includes(key, ":") /\ Includes(pattern, ":")
     /\ HeadOf(key) = HeadOf(pattern)
     /\ RestOf(pattern) = StarStr

\* C10: matchQuery(key, query) of the queued hub returns true exactly when
\* the specified Key Matcher matches key against query, for every key and
\* pattern over the alphabet.
C10_MatchQueryAgreesWithKeyMatcher ==
  mres # "unset" => mres = BoolStr(KeyMatcher(mkey, mquery))


(***************************************************************************)
(* Fan-out: plain subscriptions of the queued hub and of the synchronous   *)
(* hub, whose callbacks return, throw, or publish to the key they listen   *)
(* to; the error handlers of the synchronous hub return or throw.          *)
(***************************************************************************)
InitHubs(hs) == \E h \in hs : InitHub(h)

\* one key, listened to under an exact pattern and under a prefix wildcard
OneKey == {KeyAB}
OneKeyQueries == {KeyAB, QueryAStar}

FanData == {"x"}
FanBehaviours == {OkB, ThrowB, PubB(KeyAB, "x")}

NextFan ==
  \/ \E k \in Keys, d \in FanData : QPublish(k, d)
  \/ \E q \in Queries, oe \in BOOLEAN : QSubscribe(q, 1, FALSE, FALSE, oe, OkB)
  \/ QFlush
  \/ \E b \in FanBehaviours : QRunTask(b)
  \/ \E k \in Keys, d \in FanData : SPublish(k, d)
  \/ \E q \in Queries, oe \in BOOLEAN : SOn(q, 1, FALSE, FALSE, oe, OkB, "ok")
  \/ \E b \in FanBehaviours, h1 \in HandlerOutcomes, h2 \in HandlerOutcomes : SCall(b, h1, h2)
  \/ SReturn
  \/ \E h1 \in HandlerOutcomes, h2 \in HandlerOutcomes : SCatch(h1, h2)

SpecFan == InitHubs({"queued", "sync"}) /\ [][NextFan]_vars

(***************************************************************************)
(* Vocabulary of the claims                                                *)
(***************************************************************************)
Range(seq) == {seq[i] : i \in DOMAIN seq}

\* nothing is queued, scheduled or running
Quiescent == eventQueue = <<>> /\ tasks = <<>> /\ stack = <<>>

\* the matcher the running hub dispatches with
HubMatch(key, query) ==
  IF hub = "sync" THEN matchQuerySync(key, query) ELSE matchQuery(key, query)

\* subscription s is a plain subscription made before event i was published
\* whose pattern matches the key of event i
ListensTo(s, i) ==
  /\ meta[s].kind = "plain"
  /\ meta[s].regAt < i
  /\ HubMatch(published[i].key, meta[s].query)

\* C1: fault isolation.  publish never ends by throwing, and once dispatch
\* is over every subscription that was registered for an event and matches
\* it has been invoked with it, whatever the other callbacks did.
C1_FaultIsolation ==
  /\ last.op = "publish" => ~last.threw
  /\ Quiescent =>
       \A s \in Allocated, i \in DOMAIN published :
         ListensTo(s, i) => i \in Range(recv[s])

C9_SameKeyOrder ==
  \A s \in Allocated : \A i, j \in DOMAIN recv[s] :
    (i < j /\ published[recv[s][i]].key = published[recv[s][j]].key)
      => recv[s][i] < recv[s][j]


(***************************************************************************)
(* once: subscriptions made by once, with and without replayLatest, in the *)
(* queued hub and in the synchronous hub; the callback returns or          *)
(* publishes to its own key.                                               *)
(***************************************************************************)
OnceBehaviours == {OkB, PubB(KeyAB, "x")}

NextOnce ==
  \/ \E k \in Keys, d \in FanData : QPublish(k, d)
  \/ \E q \in Queries, r \in BOOLEAN : QOnce(q, r, FALSE, OkB)
  \/ QFlush
  \/ \E b \in OnceBehaviours : QRunTask(b)
  \/ \E k \in Keys, d \in FanData : SPublish(k, d)
  \/ \E q \in Queries, r \in BOOLEAN : SOnce(q, r, FALSE, OkB, "ok", "ok")
  \/ \E b \in OnceBehaviours : SCall(b, "ok", "ok")
  \/ SReturn

SpecOnce == InitHubs({"queued", "sync"}) /\ [][NextOnce]_vars

\* the events whose key the pattern of subscription s matches
MatchingEvents(s) ==
  {i \in DOMAIN published : HubMatch(published[i].key, meta[s].query)}

OnceNoReplay(s) ==
  meta[s].kind = "once" /\ ~meta[s].replayLatest

IsFirstOf(i, set) == i \in set /\ \A j \in set : i <= j

\* C2: a once subscription without replayLatest has its callback invoked
\* at most once, exactly once when dispatch is over and a matching event
\* was published after registration, and always with the first matching
\* event published after registration.
C2_OnceFirstPublishedAfter ==
  \A s \in Allocated : OnceNoReplay(s) =>
    LET after == {i \in MatchingEvents(s) : i > meta[s].regAt} IN
    /\ Len(recv[s]) <= 1
    /\ Len(recv[s]) = 1 => IsFirstOf(recv[s][1], after)
    /\ (Quiescent /\ after # {}) => Len(recv[s]) = 1

\* C3: a once subscription whose registration replayed a stored event has
\* its callback invoked with that event and never again.
C3_OnceReplayedOnce ==
  \A s \in Allocated :
    (meta[s].kind = "once" /\ meta[s].replayed # 0) => recv[s] = <<meta[s].replayed>>


(***************************************************************************)
(* onceAsync: subscriptions made by onceAsync in the queued hub; the       *)
(* promise returned by the callback resolves at any later time.            *)
(***************************************************************************)
NextOnceAsync ==
  \/ \E k \in OneKey, d \in FanData : QPublish(k, d)
  \/ \E q \in OneKeyQueries : QOnceAsync(q, FALSE)
  \/ QFlush
  \/ QRunTask(OkB)
  \/ \E s \in SubIds : QSettle(s)

SpecOnceAsync == InitHub("queued") /\ [][NextOnceAsync]_vars

\* subscription s has an entry in the subscriber registry
HasEntry(subs, s) ==
  \E i \in DOMAIN subs : \E j \in DOMAIN subs[i].list : subs[i].list[j].sid = s

\* C4: the callback of a onceAsync subscription is invoked at most once,
\* and when dispatch is over and the callback's promise has resolved the
\* subscription has no entry left in the subscriber registry.
C4_OnceAsyncOnce ==
  \A s \in Allocated : meta[s].kind = "onceAsync" =>
    /\ Len(recv[s]) <= 1
    /\ (Quiescent /\ Len(recv[s]) = 1 /\ meta[s].awaiting = 0)
         => ~HasEntry(subscribers, s)

(***************************************************************************)
(* Handles: plain subscriptions, made with one callback reference, with    *)
(* and without a destroyRef, and their handles, in the three services.     *)
(***************************************************************************)
NextUnsub ==
  \/ \E k \in OneKey, d \in FanData : QPublish(k, d)
  \/ \E q \in OneKeyQueries, dref \in BOOLEAN : QSubscribe(q, 1, dref, FALSE, FALSE, OkB)
  \/ \E s \in SubIds : QUnsubscribe(s)
  \/ QDestroy
  \/ QFlush
  \/ QRunTask(OkB)
  \/ \E k \in OneKey, d \in FanData : SPublish(k, d)
  \/ \E q \in OneKeyQueries, dref \in BOOLEAN : SOn(q, 1, dref, FALSE, FALSE, OkB, "ok")
  \/ \E s \in SubIds : SUnsubscribe(s)
  \/ SDestroy
  \/ SCall(OkB, "ok", "ok")
  \/ SReturn
  \/ \E k \in OneKey, d \in FanData : LEmit(k, d)
  \/ \E q \in OneKeyQueries, dref \in BOOLEAN : LSubscribe(q, 1, dref)
  \/ \E s \in SubIds : LUnsubscribe(s)
  \/ LDestroy
  \/ LFlushStart
  \/ LCall(OkB)
  \/ LFlushEnd

SpecUnsub == InitHubs({"queued", "sync", "legacy"}) /\ [][NextUnsub]_vars

\* C5: once handle.unsubscribe() has returned, the subscription's callback
\* is invoked for no event published after that return, whatever options
\* the subscription was made with.
C5_ManualUnsubscribe ==
  \A s \in Allocated : meta[s].unsubAt # -1 =>
    \A i \in DOMAIN recv[s] : recv[s][i] <= meta[s].unsubAt

\* C6: a call of handle.unsubscribe() removes no entry made by another
\* subscribe call, and when the handle's own entry is already gone it
\* leaves the subscriber registry as it is.
C6_HandleOwnEntryOnly ==
  [][last'.op = "unsubscribe" =>
       /\ \A s \in Allocated \ {last'.id} :
            HasEntry(subscribers, s) => HasEntry(subscribers', s)
       /\ ~HasEntry(subscribers, last'.id) => subscribers' = subscribers]_vars


(***************************************************************************)
(* The flush of the queued hub under fair scheduling: the effect that      *)
(* drains the queue is run by the framework whenever the queue signal has  *)
(* changed, so a flush that stays enabled is eventually taken.             *)
(***************************************************************************)
NextFlush ==
  \/ \E k \in Keys, d \in Data : QPublish(k, d)
  \/ QFlush
  \/ \E k \in Keys : QClearEvent(k)
  \/ QReset(FALSE)

FairSpecFlush == InitHub("queued") /\ [][NextFlush]_vars /\ WF_vars(QFlush)

\* no event published to key k is waiting in the queue
Flushed(k) == \A i \in DOMAIN eventQueue : eventQueue[i].key # k

\* toSignal(k)() has the key and the data of the last publish to k
ReadsLastPublish(k) ==
  LET read == RegGet(eventRegistry, k) IN
  /\ read.key = k
  /\ read.data = lastOp[k].data
  /\ read.id = lastOp[k].id

\* C8: in the queued hub, when the last operation on a key was a publish
\* and the flush has run since, toSignal(key)() returns an event with that
\* key and that publish's data; and under fair scheduling of the flush
\* every publish leads to such a state, or to a later publish, clearEvent
\* or reset of the key.
C8_PublishThenFlush ==
  /\ [](\A k \in Keys : (lastOp[k].op = "pub" /\ Flushed(k)) => ReadsLastPublish(k))
  /\ \A k \in Keys : \A i \in 1..MaxPub :
       (lastOp[k].op = "pub" /\ lastOp[k].id = i)
         ~> (lastOp[k].id # i \/ (Flushed(k) /\ ReadsLastPublish(k)))

C8_Witness ==
  /\ hub = "queued"
  /\ eventQueue = <<>>
  /\ \E k \in Keys :
       /\ lastOp[k].op = "pub"
       /\ ReadsLastPublish(k)
       /\ \E i \in DOMAIN published : published[i].key = k /\ i < lastOp[k].id

(***************************************************************************)
(* The matchers of the synchronous hub on their own.  The initial state    *)
(* draws a non-empty key and a pattern; the one action stores an event     *)
(* under the key and evaluates, for the pattern, the matcher of dispatch,  *)
(* the wildcard expansion of toSignalMultiple and the replay lookup.       *)
(***************************************************************************)
RECURSIVE ExpandQuery(_, _, _)
\* for (const [eventKey, event] of registry.entries())
\*   if (regex.test(eventKey)) matchingEvents.set(eventKey, event)
ExpandQuery(matchingEvents, reg, query) ==
  IF reg = <<>> THEN matchingEvents
  ELSE ExpandQuery(IF RegexTest(query, Head(reg).key)
                   THEN RegSet(matchingEvents, Head(reg)) ELSE matchingEvents,
                   Tail(reg), query)

RECURSIVE CollectQueries(_, _, _)
\* the loop over keys of toSignalMultiple
CollectQueries(matchingEvents, reg, keys) ==
  IF keys = <<>> THEN matchingEvents
  ELSE LET query == Head(keys)
           next == IF query = EmptyStr THEN matchingEvents
                   ELSE IF ~Includes(query, "*")
                        THEN IF RegGet(reg, query) # NoEvent
                             THEN RegSet(matchingEvents, RegGet(reg, query))
                             ELSE matchingEvents
                        ELSE ExpandQuery(matchingEvents, reg, query)
       IN CollectQueries(next, reg, Tail(keys))

\* toSignalMultiple(keys)() without sortBy: Array.from(matchingEvents.values())
toSignalMultiple(reg, keys) == CollectQueries(<<>>, reg, keys)

NoMatchResult == [done |-> FALSE, dispatch |-> FALSE, multiple |-> FALSE, replay |-> FALSE]

InitMatchSync ==
  /\ hub = "matchSync"
  /\ eventQueue = <<>>
  /\ eventRegistry = <<>>
  /\ subscribers = <<>>
  /\ meta = <<>>
  /\ tasks = <<>>
  /\ stack = <<>>
  /\ exc = FALSE
  /\ clock = 0
  /\ destroyed = FALSE
  /\ published = <<>>
  /\ recv = [s \in SubIds |-> <<>>]
  /\ last = Step("init", EmptyStr, 0, FALSE)
  /\ lastOp = [k \in Keys |-> NoOp]
  /\ mkey \in StrsUpTo(MaxKeyLen) \ {EmptyStr}
  /\ mquery \in StrsUpTo(MaxQueryLen)
  /\ mres = NoMatchResult
  /\ untilSignal = FALSE

EvalMatchSync ==
  /\ hub = "matchSync"
  /\ ~mres.done
  /\ LET event == [key |-> mkey, data |-> "x", timestamp |-> clock, id |-> 1]
         reg == SyncRegistryWrite(<<>>, event)
     IN mres' = [done |-> TRUE,
                 dispatch |-> matchQuerySync(mkey, mquery),
                 multiple |-> event \in {toSignalMultiple(reg, <<mquery>>)[i] :
                                           i \in DOMAIN toSignalMultiple(reg, <<mquery>>)},
                 replay |-> findLatestEventForKey(reg, mquery) = event]
  /\ UNCHANGED <<hub, eventQueue, eventRegistry, subscribers, meta, tasks, stack, exc,
                 destroyed, clock, published, recv, last, lastOp, mkey, mquery, untilSignal>>

NextMatchSync == EvalMatchSync

SpecMatchSync == InitMatchSync /\ [][NextMatchSync]_vars

\* a pattern seg:* whose segment is not empty and holds no ":" and no "*"
IsPrefixWildcard(pattern) ==
  /\ Includes(pattern, ":")
  /\ RestOf(pattern) = StarStr
  /\ HeadOf(pattern) # EmptyStr
  /\ ~Includes(HeadOf(pattern), "*")

\* C11: in the synchronous hub the pattern "*" matches every key, and a
\* prefix wildcard seg:* matches every key seg:<rest> whatever the
\* non-empty rest after the first ":" is, and matches no key without ":"
\* and no key whose part before the first ":" is not seg.
C11_SyncWildcards ==
  mres.done =>
    /\ mquery = StarStr => mres.dispatch
    /\ IsPrefixWildcard(mquery) =>
         /\ (Includes(mkey, ":") /\ HeadOf(mkey) = HeadOf(mquery)
               /\ RestOf(mkey) # EmptyStr) => mres.dispatch
         /\ mres.dispatch => (Includes(mkey, ":") /\ HeadOf(mkey) = HeadOf(mquery))

\* C12: for every stored key and every pattern containing "*", the key's
\* event is included in toSignalMultiple([pattern]) and is found by the
\* replay lookup for the pattern exactly when dispatch matches the key
\* against the pattern.
C12_ExpansionAgreesWithDispatch ==
  (mres.done /\ Includes(mquery, "*")) =>
    /\ mres.multiple <=> mres.dispatch
    /\ mres.replay <=> mres.dispatch

(***************************************************************************)
(* Combined-latest view of the synchronous hub: one onCombineLatest whose  *)
(* callback returns, with publishes, removals and flushes of the effects   *)
(* in every order.                                                         *)
(***************************************************************************)
CallbackOutcomes == [SubIds -> {OkB, ThrowB}]
HandlerChoices == [SubIds -> HandlerOutcomes]
AllReturn == [s \in SubIds |-> OkB]
NoHandlerThrows == [s \in SubIds |-> "ok"]

NextCombine ==
  \/ \E k \in Keys, d \in FanData : SPublish(k, d)
  \/ SReturn
  \/ \E keys \in KeyLists, r \in BOOLEAN :
        meta = <<>> /\ SOnCombineLatest(keys, FALSE, r, FALSE)
  \/ SFlushEffects(AllReturn, NoHandlerThrows)
  \/ \E s \in SubIds : SCombineUnsubscribe(s)
  \/ \E k \in Keys : SClearEvent(k)
  \/ SReset(FALSE)

SpecCombine == InitHub("sync") /\ [][NextCombine]_vars

\* the argument of the latest invocation of the callback of s
LastArgument(s) == recv[s][Len(recv[s])]

\* C13: whenever a flush of the effects has invoked the callback of an
\* onCombineLatest, every requested key has an event in the registry at
\* that moment, and the argument holds exactly one event per requested key,
\* each being the event the registry holds for that key.
C13_CombineLatestArgument ==
  last.op = "effects" =>
    \A s \in last.invoked :
      LET keys == meta[s].keys
          arg == LastArgument(s)
      IN /\ \A i \in DOMAIN keys : RegGet(eventRegistry, keys[i]) # NoEvent
         /\ Len(arg) = Len(keys)
         /\ \A i \in DOMAIN keys :
              /\ Cardinality({j \in DOMAIN arg : arg[j].key = keys[i]}) = 1
              /\ \E j \in DOMAIN arg : arg[j] = RegGet(eventRegistry, keys[i])

\* a callback for two keys was invoked after one of its keys was published
\* a second time
C13_Witness ==
  /\ last.op = "effects"
  /\ \E s \in last.invoked :
       /\ Len(meta[s].keys) = 2
       /\ Len(recv[s]) = 2
       /\ nextEv = 3

(***************************************************************************)
(* onCombineLatest(['a:b', 'a:c'], cb) registered on an empty hub, followed *)
(* by publishes to the two keys and flushes of the effects in every order. *)
(***************************************************************************)
NextCombineTicks ==
  \/ \E k \in Keys, d \in Data : SPublish(k, d)
  \/ SReturn
  \/ \E oe \in BOOLEAN :
        meta = <<>> /\ nextEv = 0 /\ SOnCombineLatest(<<KeyAB, KeyAC>>, FALSE, FALSE, oe)
  \/ SFlushEffects(AllReturn, NoHandlerThrows)

SpecCombineTicks == InitHub("sync") /\ [][NextCombineTicks]_vars

\* the publishes made once every key of keys had been published
ReadyPublishes(keys) ==
  {i \in 1..nextEv :
     \A n \in DOMAIN keys : \E j \in 1..i : published[j].key = keys[n]}

\* every publish has returned and no effect is scheduled
Settled == stack = <<>> /\ \A s \in Allocated : ~Scheduled(meta[s])

\* C14: with onCombineLatest(['a:b', 'a:c'], cb) registered before any
\* publish, once all publishes have returned and the effects have been
\* flushed, cb has been invoked once for the publish that made both keys
\* present and once more for each publish to either key after it, and not
\* at all while only one key has been published.
C14_CombineLatestOncePerPublish ==
  \A s \in Allocated :
    (meta[s].kind = "combine" /\ Settled) =>
      Len(recv[s]) = Cardinality(ReadyPublishes(meta[s].keys))

\* the publishes to a key of keys made after n events had been published
PublishedSince(keys, n) ==
  {i \in (n + 1)..nextEv : \E j \in DOMAIN keys : published[i].key = keys[j]}

\* C15: the callback of an onCombineLatest registered without replayLatest
\* is invoked only when a publish to one of its keys was made after the
\* registration, also when every key had an event at registration; with
\* replayLatest the first run of the effect invokes the callback whenever
\* every key has an event.
C15_CombineLatestReplay ==
  last.op = "effects" =>
    \A s \in Allocated :
      meta[s].kind = "combine" =>
        /\ (s \in last.invoked /\ ~meta[s].replayLatest) =>
              PublishedSince(meta[s].keys, meta[s].regAt) # {}
        /\ (meta[s].replayLatest /\ meta[s].live /\ recv[s] = <<>>) =>
              combinedSignal(eventRegistry, meta[s].keys) = NoEvents

\* C16: a key whose most recent publish, clearEvent or reset call is a
\* clearEvent of that key or a reset has no event in the registry, in every
\* state after that call, also after the flushes that follow it.
C16_RemovalDurable ==
  \A k \in Keys :
    lastOp[k].op \in {"clear", "reset"} => RegGet(eventRegistry, k) = NoEvent

\* C17: clearEvent and reset() without clearSubscribers invoke no callback:
\* the callback of an onCombineLatest has been invoked at most once for the
\* events stored at its registration and once for each publish call made
\* after it, however many clearEvent and reset calls were made.
C17_RemovalInvokesNoCallback ==
  \A s \in Allocated :
    meta[s].kind = "combine" => Len(recv[s]) <= 1 + (nextEv - meta[s].regAt)

(***************************************************************************)
(* reset({clearSubscribers: true}) of the synchronous hub next to on, once *)
(* and onCombineLatest subscriptions whose callbacks return.               *)
(***************************************************************************)
NextResetAll ==
  \/ \E k \in Keys, d \in FanData : SPublish(k, d)
  \/ SCall(OkB, "ok", "ok")
  \/ SReturn
  \/ \E q \in OneKeyQueries : SOn(q, 1, FALSE, FALSE, FALSE, OkB, "ok")
  \/ \E q \in OneKeyQueries : SOnce(q, FALSE, FALSE, OkB, "ok", "ok")
  \/ \E keys \in KeyLists : SOnCombineLatest(keys, FALSE, TRUE, FALSE)
  \/ SFlushEffects(AllReturn, NoHandlerThrows)
  \/ SReset(TRUE)

SpecResetAll == InitHub("sync") /\ [][NextResetAll]_vars

\* the ids of the events that the callback of s was invoked with
ReceivedIds(s) ==
  IF meta[s].kind = "combine"
  THEN {recv[s][i][j].id : i \in DOMAIN recv[s], j \in 1..Len(meta[s].keys)}
  ELSE {recv[s][i] : i \in DOMAIN recv[s]}

\* C18: after reset({clearSubscribers: true}) the registry is empty until
\* the next publish, and no callback registered before the reset through
\* on, once or onCombineLatest is invoked with an event published after
\* the reset.
C18_ResetClearsSubscriptions ==
  /\ \A k \in Keys : lastOp[k].op = "reset" => RegGet(eventRegistry, k) = NoEvent
  /\ \A s \in Allocated :
       meta[s].clearedAt # -1 => \A i \in ReceivedIds(s) : i <= meta[s].clearedAt

(***************************************************************************)
(* Failing callbacks of the synchronous hub: on and once subscriptions,    *)
(* with and without replayLatest and onError, whose callbacks return,      *)
(* throw, or return a promise that rejects.  The onError handlers return.  *)
(***************************************************************************)
FailureBehaviours == {OkB, ThrowB, RejectB}

NextFailures ==
  \/ \E k \in OneKey, d \in FanData : SPublish(k, d)
  \/ \E b \in FailureBehaviours : SCall(b, "ok", "ok")
  \/ SReturn
  \/ SRunReaction("ok")
  \/ \E q \in OneKeyQueries, r \in BOOLEAN, oe \in BOOLEAN, b \in FailureBehaviours :
        SOn(q, 1, FALSE, r, oe, b, "ok")
  \/ \E q \in OneKeyQueries, r \in BOOLEAN, oe \in BOOLEAN, b \in FailureBehaviours :
        SOnce(q, r, oe, b, "ok", "ok")

SpecFailures == InitHub("sync") /\ [][NextFailures]_vars

\* C19: every failure of a delivered callback, a throw or a rejected
\* promise, in the dispatch of a publish or in a replay, is passed exactly
\* once to the onError of its own subscription or else to the warning sink,
\* and no rejection is dropped.
C19_FailureRoutedOnce ==
  last.op = "failure" => last.routed = 1 /\ ~last.threw

(***************************************************************************)
(* on({key: 'a:b', callback, until}) of the synchronous hub with a string  *)
(* stop condition, next to other subscriptions whose callbacks return or   *)
(* throw and whose error handlers return or throw.                         *)
(***************************************************************************)
StopQueries == {KeyAC, QueryAStar}
OtherQueries == {KeyAB, KeyAC, QueryAStar}

NextUntil ==
  \/ \E k \in Keys, d \in FanData : SPublish(k, d)
  \/ \E b \in {OkB, ThrowB}, h1 \in HandlerOutcomes : SCall(b, h1, "ok")
  \/ SReturn
  \/ \E stopq \in StopQueries : SOnUntil(KeyAB, stopq, FALSE, FALSE, FALSE, OkB, "ok")
  \/ \E q \in OtherQueries, oe \in BOOLEAN : SOn(q, 1, FALSE, FALSE, oe, OkB, "ok")

SpecUntil == InitHub("sync") /\ [][NextUntil]_vars

\* the publishes made after call s that match its until condition
StopPublishes(s) ==
  {j \in (meta[s].regAt + 1)..nextEv : matchQuerySync(published[j].key, meta[s].until)}

\* C20: the callback of on({key, callback, until}) is not invoked for a
\* publish made after a publish that matches the until condition, whatever
\* other subscriptions are registered and in whatever order.
C20_NoDeliveryAfterStop ==
  \A s \in Allocated :
    HasUntil(meta[s]) =>
      \A n \in DOMAIN recv[s] : \A j \in StopPublishes(s) : recv[s][n] <= j

(***************************************************************************)
(* on({key: 'a:b', callback, until: [...stops, signal]}) of the            *)
(* synchronous hub: the signal is written, the effects are flushed and     *)
(* events are published in every order.                                    *)
(***************************************************************************)
NextUntilSignal ==
  \/ \E k \in Keys, d \in FanData : SPublish(k, d)
  \/ SCall(OkB, "ok", "ok")
  \/ SReturn
  \/ SSetSignal(~untilSignal)
  \/ \E stops \in StopLists, r \in BOOLEAN : SOnUntilSignal(KeyAB, stops, r, FALSE, OkB, "ok")
  \/ SFlushEffects(AllReturn, NoHandlerThrows)
  \/ \E s \in SubIds : SUnsubscribe(s)

SpecUntilSignal == InitHub("sync") /\ [][NextUntilSignal]_vars

\* the entries of the subscribers Map that hold a callback of call s
EntriesOf(subs, s) ==
  {i \in DOMAIN subs : \E j \in DOMAIN subs[i].list : subs[i].list[j].sid = s}

\* call s of on() was made with an until signal that was true
RegisteredWhileTrue(s) == HasSignal(meta[s]) /\ meta[s].sigAtReg

\* C21: a call of on() whose until list holds a signal that is true at the
\* call registers no entry, neither for the key nor for a stop key, creates
\* no effect, replays nothing, and its callback is never invoked; and
\* unsubscribe() of its handle changes neither the subscribers nor the
\* registry.
C21_TrueSignalInstallsNothing ==
  /\ [](\A s \in Allocated :
          RegisteredWhileTrue(s) =>
            /\ EntriesOf(subscribers, s) = {}
            /\ ~meta[s].effLive
            /\ recv[s] = <<>>)
  /\ [][(last'.op = "unsubscribe" /\ last'.id \in Allocated /\ RegisteredWhileTrue(last'.id))
          => (subscribers' = subscribers /\ eventRegistry' = eventRegistry)]_vars

\* an inert handle was unsubscribed after a publish to the key, with
\* replayLatest set and another subscription registered
C21_Witness ==
  /\ last.op = "unsubscribe"
  /\ RegisteredWhileTrue(last.id)
  /\ meta[last.id].replayLatest
  /\ meta[last.id].regAt > 0
  /\ nextEv > meta[last.id].regAt
  /\ subscribers # <<>>

\* C22: while the until signal of a call of on() is true, having become
\* true after the call, the callback of that call is not invoked with an
\* event published since, whether or not the effects were flushed between
\* the write of the signal and the publish.
C22_NoDeliveryWhileSignalTrue ==
  (untilSignal /\ stack # <<>>) =>
    \A s \in Allocated :
      HasSignal(meta[s]) => \A n \in DOMAIN recv[s] : recv[s][n] # stack[1].ev.id

(***************************************************************************)
(* Subscriptions tied to a DestroyRef                                      *)
(***************************************************************************)
\* subscription s was made with a destroyRef whose teardown has run, and its
\* handle was never used
TornDown(s) ==
  /\ meta[s].kind = "plain"
  /\ meta[s].dref
  /\ meta[s].tornAt # -1
  /\ meta[s].unsubAt = -1

\* C23: for a subscription registered with a destroyRef, the callback is
\* invoked for no event published after the teardown, and once dispatch is
\* over every matching event published between registration and teardown
\* has been delivered to it.
C23_DestroyRefScope ==
  \A s \in Allocated : TornDown(s) =>
    /\ \A n \in DOMAIN recv[s] : recv[s][n] <= meta[s].tornAt
    /\ Quiescent =>
         \A i \in 1..meta[s].tornAt : ListensTo(s, i) => i \in Range(recv[s])

(***************************************************************************)
(* Argument validation.  Every public method checks its arguments in its   *)
(* first statements and throws; the calls below are the public methods     *)
(* with arguments that may be invalid.                                     *)
(***************************************************************************)
KeyRejectedNever(k) == FALSE

\* if (!key) throw new Error('Key cannot be empty')
KeyRejected(k) == k = EmptyStr

\* callback: null as any
NotAFunction == 0

\* if (typeof callback !== 'function') throw new Error('Callback must be a function')
CallbackRejected(cb) == cb \notin Callbacks

NullData == {"null", "undefined"}

\* if (data == null) throw new Error('Data cannot be null or undefined')
DataRejected(d) == d \in NullData

\* if (key.includes('*')) throw new Error('toSignal does not support wildcards...')
WildcardRejected(k) == \E i \in DOMAIN k : k[i] = "*"

\* the call op(k, ...) ended by throwing a validation error
Rejected(op, k) == [op |-> op, key |-> k, id |-> 0, threw |-> TRUE, invalid |-> TRUE]

Throws(op, k) ==
  /\ last' = Rejected(op, k)
  /\ UNCHANGED <<hub, eventQueue, eventRegistry, subscribers, meta, tasks, syncVars,
                 destroyed, clock, published, recv, lastOp, matchVars, untilSignal>>

\* the computed signal that toSignal returns is read once
ReadSignal(k) ==
  /\ last' = Step("toSignal", k, RegGet(eventRegistry, k).id, FALSE)
  /\ UNCHANGED <<hub, eventQueue, eventRegistry, subscribers, meta, tasks, syncVars,
                 destroyed, clock, published, recv, lastOp, matchVars, untilSignal>>

QPublishCall(k, d) ==
  /\ hub = "queued"
  /\ IF KeyRejected(k) \/ DataRejected(d) THEN Throws("publish", k) ELSE QPublish(k, d)

QSubscribeCall(q, cb, replayLatest) ==
  /\ hub = "queued"
  /\ IF KeyRejected(q) \/ CallbackRejected(cb) THEN Throws("subscribe", q)
     ELSE QSubscribe(q, cb, FALSE, replayLatest, FALSE, OkB)

\* once hands subscribe a wrapper of its own, so only the key is checked
QOnceCall(q, replayLatest) ==
  /\ hub = "queued"
  /\ IF KeyRejected(q) THEN Throws("once", q) ELSE QOnce(q, replayLatest, FALSE, OkB)

QToSignalCall(k) ==
  /\ hub = "queued"
  /\ IF KeyRejected(k) THEN Throws("toSignal", k) ELSE ReadSignal(k)

QClearEventCall(k) ==
  /\ hub = "queued"
  /\ IF KeyRejected(k) THEN Throws("clearEvent", k) ELSE QClearEvent(k)

SPublishCall(k, d) ==
  /\ hub = "sync"
  /\ stack = <<>>
  /\ IF KeyRejected(k) THEN Throws("publish", k) ELSE SPublish(k, d)

SOnCall(q, cb, replayLatest) ==
  /\ hub = "sync"
  /\ stack = <<>>
  /\ IF KeyRejected(q) \/ CallbackRejected(cb) THEN Throws("on", q)
     ELSE SOn(q, cb, FALSE, replayLatest, FALSE, OkB, "ok")

SOnceCall(q, replayLatest) ==
  /\ hub = "sync"
  /\ stack = <<>>
  /\ IF KeyRejected(q) THEN Throws("once", q)
     ELSE SOnce(q, replayLatest, FALSE, OkB, "ok", "ok")

SToSignalCall(k) ==
  /\ hub = "sync"
  /\ stack = <<>>
  /\ IF KeyRejected(k) \/ WildcardRejected(k) THEN Throws("toSignal", k) ELSE ReadSignal(k)

SClearEventCall(k) ==
  /\ hub = "sync"
  /\ stack = <<>>
  /\ IF KeyRejected(k) THEN Throws("clearEvent", k) ELSE SClearEvent(k)

GivenKeys == {EmptyStr, KeyAB}
GivenData == {"x"} \cup NullData
GivenCallbacks == Callbacks \cup {NotAFunction}

NextValidate ==
  \/ \E k \in GivenKeys, d \in GivenData : QPublishCall(k, d)
  \/ \E q \in GivenKeys, cb \in GivenCallbacks, r \in BOOLEAN : QSubscribeCall(q, cb, r)
  \/ \E q \in GivenKeys, r \in BOOLEAN : QOnceCall(q, r)
  \/ \E k \in GivenKeys : QToSignalCall(k)
  \/ \E k \in GivenKeys : QClearEventCall(k)
  \/ QFlush
  \/ QRunTask(OkB)
  \/ \E k \in GivenKeys, d \in GivenData : SPublishCall(k, d)
  \/ \E q \in GivenKeys, cb \in GivenCallbacks, r \in BOOLEAN : SOnCall(q, cb, r)
  \/ \E q \in GivenKeys, r \in BOOLEAN : SOnceCall(q, r)
  \/ \E k \in GivenKeys \cup {QueryAStar} : SToSignalCall(k)
  \/ \E k \in GivenKeys : SClearEventCall(k)
  \/ SCall(OkB, "ok", "ok")
  \/ SReturn

SpecValidate == InitHubs({"queued", "sync"}) /\ [][NextValidate]_vars

\* the last call was refused by a validation check
Refused(l) == "invalid" \in DOMAIN l

\* nothing the hub stores carries an argument that validation refuses
NoInvalidStored ==
  /\ \A i \in DOMAIN published :
       /\ published[i].key # EmptyStr
       /\ hub = "queued" => published[i].data \notin NullData
  /\ \A i \in DOMAIN subscribers :
       /\ subscribers[i].query # EmptyStr
       /\ \A j \in DOMAIN subscribers[i].list : subscribers[i].list[j].cb # NotAFunction

\* C24: a call that fails validation (empty key for publish, subscribe/on,
\* once, toSignal, clearEvent; a callback that is no function; null or
\* undefined data in the queued hub) throws at once, stores nothing, and
\* leaves the queue, the registry and the subscriber registry as they were
\* and invokes no callback.
C24_ValidationMutatesNothing ==
  /\ [](NoInvalidStored)
  /\ [][Refused(last') =>
          UNCHANGED <<eventQueue, eventRegistry, subscribers, published, recv,
                      tasks, stack, meta>>]_vars

C24_Witness ==
  /\ Refused(last)
  /\ last.op = "subscribe"
  /\ eventQueue # <<>>
  /\ eventRegistry # <<>>
  /\ subscribers # <<>>

(***************************************************************************)
(* Replay at registration against live delivery                            *)
(***************************************************************************)
MaxClock == 1      \* milliseconds that Date.now() advances per behaviour

\* time passes between two calls
Tick ==
  /\ hub \in {"queued", "sync"}
  /\ stack = <<>>
  /\ clock < MaxClock
  /\ clock' = clock + 1
  /\ last' = Other
  /\ UNCHANGED <<hub, eventQueue, eventRegistry, subscribers, meta, tasks, syncVars,
                 destroyed, published, recv, lastOp, matchVars, untilSignal>>

ReplayQueries == {KeyAB, QueryAStar, StarStr}

NextReplay ==
  \/ \E k \in Keys, d \in FanData : QPublish(k, d)
  \/ \E q \in ReplayQueries : QSubscribe(q, 1, FALSE, TRUE, FALSE, OkB)
  \/ QFlush
  \/ QRunTask(OkB)
  \/ \E k \in Keys, d \in FanData : SPublish(k, d)
  \/ \E q \in ReplayQueries : SOn(q, 1, FALSE, TRUE, FALSE, OkB, "ok")
  \/ SCall(OkB, "ok", "ok")
  \/ SReturn
  \/ Tick

SpecReplay == InitHubs({"queued", "sync"}) /\ [][NextReplay]_vars

\* how many times x occurs in seq
Count(seq, x) == Cardinality({n \in DOMAIN seq : seq[n] = x})

\* ids of the events published under key k before subscription s was made
PublishedBefore(s, k) ==
  {i \in DOMAIN published : i <= meta[s].regAt /\ published[i].key = k}

Max(set) == CHOOSE x \in set : \A y \in set : y <= x

\* subscription s has an exact key, asked for replay, and its key had been
\* published when it was made
ReplaysKey(s) ==
  /\ meta[s].kind = "plain"
  /\ meta[s].replayLatest
  /\ ~Includes(meta[s].query, "*")
  /\ PublishedBefore(s, meta[s].query) # {}

\* C25: when publish(k, d) is followed by subscribe({key: k, replayLatest:
\* true}), the callback is invoked with that event at most once, and exactly
\* once when dispatch is over, whether the subscribe call came before or
\* after the flush.
C25_ReplayOrLiveExactlyOnce ==
  \A s \in Allocated : ReplaysKey(s) =>
    LET e == Max(PublishedBefore(s, meta[s].query)) IN
    /\ Count(recv[s], e) <= 1
    /\ Quiescent => Count(recv[s], e) = 1

C25_Witness ==
  /\ hub = "queued"
  /\ Quiescent
  /\ \E s \in Allocated, t \in Allocated :
       /\ ReplaysKey(s) /\ ReplaysKey(t)
       /\ meta[s].replayed = 0
       /\ Count(recv[s], Max(PublishedBefore(s, meta[s].query))) = 1
       /\ meta[t].replayed = Max(PublishedBefore(t, meta[t].query))

\* ids of the events that were stored when subscription s was made and whose
\* keys its pattern matches
StoredMatching(s) ==
  {i \in DOMAIN published :
     i <= meta[s].regFlushed /\ HubMatch(published[i].key, meta[s].query)}

\* subscription s has a wildcard pattern, asked for replay, and the registry
\* held a matching event when it was made
ReplaysPattern(s) ==
  /\ meta[s].kind = "plain"
  /\ meta[s].replayLatest
  /\ Includes(meta[s].query, "*")
  /\ StoredMatching(s) # {}

\* C26: a subscription made with replayLatest under a wildcard pattern
\* while the registry holds a matching event has its callback invoked at
\* registration with the most recently published matching stored event.
C26_PatternReplay ==
  \A s \in Allocated : ReplaysPattern(s) =>
    /\ meta[s].replayed = Max(StoredMatching(s))
    /\ recv[s] # <<>>
    /\ recv[s][1] = Max(StoredMatching(s))

(***************************************************************************)
(* toSignalMultiple and onCombineLatest called with arbitrary key lists    *)
(***************************************************************************)
RECURSIVE queuedToSignalMultiple(_, _)
\* keys.map(key => registry.get(key)).filter(Boolean) of the queued hub
queuedToSignalMultiple(reg, keys) ==
  IF keys = <<>> THEN <<>>
  ELSE (IF RegGet(reg, Head(keys)) # NoEvent THEN <<RegGet(reg, Head(keys))>> ELSE <<>>)
       \o queuedToSignalMultiple(reg, Tail(keys))

\* keys.some(key => !key)
SomeKeyRejected(keys) == \E i \in DOMAIN keys : KeyRejected(keys[i])

\* the call op(keys) ended by throwing
ThrowsList(op, keys) ==
  /\ last' = [keys |-> keys, result |-> <<>>] @@ Rejected(op, EmptyStr)
  /\ UNCHANGED <<hub, eventQueue, eventRegistry, subscribers, meta, tasks, syncVars,
                 destroyed, clock, published, recv, lastOp, matchVars, untilSignal>>

\* toSignalMultiple(keys) returned a signal, which is read once
ReadList(keys, result) ==
  /\ last' = [keys |-> keys, result |-> result] @@ Step("toSignalMultiple", EmptyStr, 0, FALSE)
  /\ UNCHANGED <<hub, eventQueue, eventRegistry, subscribers, meta, tasks, syncVars,
                 destroyed, clock, published, recv, lastOp, matchVars, untilSignal>>

QToSignalMultipleCall(keys) ==
  /\ hub = "queued"
  /\ IF keys = <<>> \/ SomeKeyRejected(keys) THEN ThrowsList("toSignalMultiple", keys)
     ELSE ReadList(keys, queuedToSignalMultiple(eventRegistry, keys))

SToSignalMultipleCall(keys) ==
  /\ hub = "sync"
  /\ stack = <<>>
  /\ IF keys = <<>> THEN ThrowsList("toSignalMultiple", keys)
     ELSE ReadList(keys, toSignalMultiple(eventRegistry, keys))

\* keys.map(key => this.toSignal(key)) throws before the effect is created
SOnCombineLatestCall(keys, replayLatest) ==
  /\ hub = "sync"
  /\ stack = <<>>
  /\ IF \/ keys = <<>>
        \/ \E i \in DOMAIN keys : KeyRejected(keys[i]) \/ WildcardRejected(keys[i])
     THEN ThrowsList("onCombineLatest", keys)
     ELSE meta = <<>> /\ SOnCombineLatest(keys, FALSE, replayLatest, FALSE)

MaxListLen == 2    \* entries of a key list given to toSignalMultiple / onCombineLatest

ListEntries == {EmptyStr, KeyAB, KeyAC, QueryAStar}
GivenKeyLists == UNION {[1..n -> ListEntries] : n \in 0..MaxListLen}

NextMultiple ==
  \/ \E k \in Keys, d \in FanData : QPublish(k, d)
  \/ QFlush
  \/ \E keys \in GivenKeyLists : QToSignalMultipleCall(keys)
  \/ \E k \in Keys, d \in FanData : SPublish(k, d)
  \/ SReturn
  \/ \E keys \in GivenKeyLists : SToSignalMultipleCall(keys)
  \/ \E keys \in GivenKeyLists, r \in BOOLEAN : SOnCombineLatestCall(keys, r)
  \/ SFlushEffects(AllReturn, NoHandlerThrows)

SpecMultiple == InitHubs({"queued", "sync"}) /\ [][NextMultiple]_vars

\* the stored events that at least one entry of keys selects
Selected(reg, keys) ==
  {reg[n] : n \in {m \in DOMAIN reg : \E i \in DOMAIN keys : HubMatch(reg[m].key, keys[i])}}

\* C27: the array that toSignalMultiple(keys) yields holds every stored
\* event selected by at least one entry of keys exactly once, however many
\* entries select it, and holds nothing else.
C27_DeduplicatedUnion ==
  (last.op = "toSignalMultiple" /\ ~last.threw) =>
    /\ \A e \in Selected(eventRegistry, last.keys) : Count(last.result, e) = 1
    /\ Range(last.result) \subseteq Selected(eventRegistry, last.keys)

\* a key list that is empty or has an empty entry
InvalidKeys(keys) == keys = <<>> \/ \E i \in DOMAIN keys : keys[i] = EmptyStr

\* C28: toSignalMultiple and onCombineLatest throw when the key list is
\* empty or contains an empty entry, and no onCombineLatest subscription
\* exists for such a list.
C28_InvalidKeyLists ==
  /\ (last.op \in {"toSignalMultiple", "onCombineLatest"} /\ InvalidKeys(last.keys))
       => last.threw
  /\ \A s \in Allocated : meta[s].kind = "combine" => ~InvalidKeys(meta[s].keys)

(***************************************************************************)
(* Queued hub: unsubscribeAll(key?)                                        *)
(***************************************************************************)
\* the optional argument: a string, or nothing
Arg(p) == [given |-> TRUE, value |-> p]
NoArg == [given |-> FALSE, value |-> EmptyStr]

\* if (key): undefined and the empty string are falsy
Truthy(a) == a.given /\ a.value # EmptyStr

\* Map.prototype.delete
MapDelete(subs, q) == IF SubsIndex(subs, q) = 0 THEN subs ELSE RemoveAt(subs, SubsIndex(subs, q))

QUnsubscribeAll(a) ==
  /\ hub = "queued"
  /\ subscribers' = IF Truthy(a) THEN MapDelete(subscribers, a.value) ELSE <<>>
  /\ last' = [given |-> a.given] @@ Step("unsubscribeAll", a.value, 0, FALSE)
  /\ QNoInvoke
  /\ UNCHANGED <<hub, eventRegistry, meta, tasks, syncVars, destroyed, clock, matchVars,
                 untilSignal>>

GivenPatterns == {EmptyStr, KeyAB, KeyAC, QueryAStar}
GivenArgs == {NoArg} \cup {Arg(p) : p \in GivenPatterns}

NextUnsubAll ==
  \/ \E k \in Keys, d \in FanData : QPublish(k, d)
  \/ \E q \in OneKeyQueries : QSubscribe(q, 1, FALSE, FALSE, FALSE, OkB)
  \/ QFlush
  \/ QRunTask(OkB)
  \/ \E a \in GivenArgs : QUnsubscribeAll(a)

SpecUnsubAll == InitHub("queued") /\ [][NextUnsubAll]_vars

\* the subscriber registry without the entries registered under pattern p
WithoutPattern(subs, p) == SelectSeq(subs, LAMBDA e : e.query # p)

\* C29: unsubscribeAll(p) with a string p removes exactly the entries
\* registered under p and leaves every other pattern's entries as they
\* were; unsubscribeAll() removes all subscribers; neither changes the
\* registry of latest events.
C29_UnsubscribeAllFrame ==
  [][last'.op = "unsubscribeAll" =>
       /\ eventRegistry' = eventRegistry
       /\ subscribers' = IF last'.given THEN WithoutPattern(subscribers, last'.key)
                         ELSE <<>>]_vars

(***************************************************************************)
(* Asynchronous callbacks whose promise stays pending                      *)
(***************************************************************************)
PendingBehaviours == {OkB, PendingB}

NextPending ==
  \/ \E k \in Keys, d \in FanData : QPublish(k, d)
  \/ \E q \in Queries : QSubscribe(q, 1, FALSE, FALSE, FALSE, OkB)
  \/ QFlush
  \/ \E b \in PendingBehaviours : QRunTask(b)
  \/ \E k \in Keys, d \in FanData : SPublish(k, d)
  \/ \E q \in Queries : SOn(q, 1, FALSE, FALSE, FALSE, OkB, "ok")
  \/ \E b \in PendingBehaviours : SCall(b, "ok", "ok")
  \/ SReturn

SpecPending == InitHubs({"queued", "sync"}) /\ [][NextPending]_vars

\* some invocation of a callback returned a promise that is still pending
SomePending == \E s \in Allocated : meta[s].awaiting > 0

\* C30: while the promise of some asynchronous callback stays pending,
\* dispatch still ends, and when it is over every published event is in the
\* registry unless a later event of its key replaced it, and has been
\* delivered to every subscription registered for it, the pending one
\* included.
C30_PendingDoesNotBlock ==
  (SomePending /\ Quiescent) =>
    \A i \in DOMAIN published :
      /\ RegGet(eventRegistry, published[i].key).id >= i
      /\ \A s \in Allocated : ListensTo(s, i) => i \in Range(recv[s])

C30_Witness ==
  /\ hub = "queued"
  /\ Quiescent
  /\ \E s \in Allocated, t \in Allocated :
       /\ s # t
       /\ meta[s].awaiting = 1
       /\ meta[t].awaiting = 0
       /\ Len(recv[s]) >= 2
       /\ recv[s][1] \in Range(recv[t])
       /\ recv[s][1] < recv[s][2]

(***************************************************************************)
(* The registry of the synchronous hub under publish, clearEvent and reset *)
(* called from outside and from inside callbacks                           *)
(***************************************************************************)
LatestBehaviours == {OkB, PubB(KeyAB, "y"), ClearB(KeyAB), ResetB}

NextLatest ==
  \/ \E k \in Keys, d \in FanData : SPublish(k, d)
  \/ \E b \in LatestBehaviours : SCall(b, "ok", "ok")
  \/ SReturn
  \/ \E q \in Queries : SOn(q, 1, FALSE, FALSE, FALSE, OkB, "ok")
  \/ \E s \in SubIds : SUnsubscribe(s)
  \/ \E k \in Keys : SClearEvent(k)
  \/ \E c \in BOOLEAN : SReset(c)

SpecLatest == InitHub("sync") /\ [][NextLatest]_vars

\* positions of the registry that hold an event of key k
EntriesFor(reg, k) == {i \in DOMAIN reg : reg[i].key = k}

\* C31: in every reachable state of the synchronous hub the registry holds
\* at most one event per key: the event of the most recent publish to the
\* key if no clearEvent of the key and no reset came after it, and none
\* otherwise.
C31_LatestValue ==
  \A k \in Keys :
    /\ Cardinality(EntriesFor(eventRegistry, k)) <= 1
    /\ IF lastOp[k].op = "pub"
       THEN RegGet(eventRegistry, k) = published[lastOp[k].id]
       ELSE EntriesFor(eventRegistry, k) = {}

C31_Witness ==
  /\ Len(stack) = 2
  /\ lastOp[KeyAB].op = "pub"
  /\ lastOp[KeyAC].op = "reset"
  /\ RegGet(eventRegistry, KeyAB).id = 3

\* event i has been taken out of the queue by a flush
Dispatched(i) == i <= nextEv - Len(eventQueue)

\* C32: in the queued hub a subscription that was registered before
\* publish was called and is still registered is invoked with the event at
\* most once, and exactly once when the flush that took the event and the
\* reactions it scheduled have run, whatever else was in the batch; and a
\* flush leaves the queue empty.
C32_QueuedExactlyOnce ==
  /\ [](hub = "queued" =>
          \A s \in Allocated, i \in DOMAIN published :
            (ListensTo(s, i) /\ HasEntry(subscribers, s)) =>
              /\ Count(recv[s], i) <= 1
              /\ (Dispatched(i) /\ tasks = <<>>) => Count(recv[s], i) = 1)
  /\ [][(hub = "queued" /\ Len(eventQueue') < Len(eventQueue)) => eventQueue' = <<>>]_vars

C32_Witness ==
  /\ hub = "queued"
  /\ Quiescent
  /\ nextEv = MaxPub
  /\ Len(eventRegistry) = 1
  /\ \E s \in Allocated :
       /\ HasEntry(subscribers, s)
       /\ meta[s].regFlushed = 0
       /\ Len(recv[s]) = MaxPub

\* the callback of subscription s is invoked in this step
InvokedNow(s) == Len(recv'[s]) = Len(recv[s]) + 1

\* C33: whenever a callback is invoked with event e, the registry read at
\* that moment holds, for the key of e, the event e or an event published
\* after e.
C33_RegistryWriteBeforeFanOut ==
  [][\A s \in Allocated : InvokedNow(s) =>
       LET e == published[recv'[s][Len(recv'[s])]] IN
       RegGet(eventRegistry, e.key).id >= e.id]_vars

\* C34: a flush of the effects invokes the callback of an onCombineLatest
\* only in the first run of its effect or when the event stored for one of
\* its keys has changed since the effect was polled last.
C34_CombineOnlyOnConstituents ==
  [][last'.op = "effects" =>
       \A s \in last'.invoked :
         \/ meta[s].first
         \/ SourceValues(eventRegistry, meta[s].keys) # meta[s].seenSrc]_vars

\* C35: once the callback of a once subscription has been invoked, by
\* dispatch or by the replay at registration, the subscriber registry holds
\* no entry of that subscription.
C35_OnceEntryRemoved ==
  \A s \in Allocated :
    (meta[s].kind = "once" /\ recv[s] # <<>>) => ~HasEntry(subscribers, s)

\* C36: in the queued hub a subscription made without replayLatest is
\* invoked only with events whose publish call came after the subscribe
\* call.
C36_OnlyLaterEvents ==
  hub = "queued" =>
    \A s \in Allocated :
      (meta[s].kind = "plain" /\ ~meta[s].replayLatest) =>
        \A n \in DOMAIN recv[s] : recv[s][n] > meta[s].regAt

(***************************************************************************)
(* Legacy bus: callbacks that emit, drop or reset while the queue is being *)
(* flushed                                                                 *)
(***************************************************************************)
LegacyBehaviours == {OkB, PubB(KeyAC, "y"), ClearB(KeyAB), ResetB}

NextLegacy ==
  \/ \E k \in Keys, d \in FanData : LEmit(k, d)
  \/ \E q \in Queries : LSubscribe(q, 1, FALSE)
  \/ LFlushStart
  \/ \E b \in LegacyBehaviours : LCall(b)
  \/ LFlushEnd

SpecLegacy == InitHub("legacy") /\ [][NextLegacy]_vars

\* C37: in the legacy bus, when nothing is queued and no flush is running,
\* every key whose latest operation is an emit has that emit's event in the
\* registry, every key dropped or reset since its last emit has none, and
\* every event has been dispatched to the subscriptions registered for it.
C37_LegacyNothingLost ==
  Quiescent =>
    /\ \A k \in Keys :
         IF lastOp[k].op = "pub"
         THEN RegGet(eventRegistry, k).id = lastOp[k].id
         ELSE RegGet(eventRegistry, k) = NoEvent
    /\ \A s \in Allocated, i \in DOMAIN published :
         ListensTo(s, i) => i \in Range(recv[s])

(***************************************************************************)
(* Synchronous hub: a callback that subscribes while it is being invoked   *)
(***************************************************************************)
\* the next callback of the dispatch in progress calls on({key: q, callback})
\* (no replayLatest, no until) and returns: internalSubscribe adds the new
\* entry to the Map and Set that the forEach loops are iterating
SCallOn(q) ==
  /\ hub = "sync"
  /\ stack # <<>>
  /\ ~exc
  /\ Len(meta) < MaxSubs
  /\ LET n == Len(stack)
         a == Advance(stack[n], subscribers)
         x == a.target.sid
         m == meta[x]
         s == Len(meta) + 1
         subs1 == IF m.kind = "once" THEN OnceUnsubscribe(subscribers, m, x)
                  ELSE subscribers
     IN /\ a.target # NoEntry
        /\ a.target.cb # StopOf(x)
        /\ recv' = [recv EXCEPT ![x] = Append(@, a.f.ev.id)]
        /\ subscribers' = PushSubscriber(subs1, q, [cb |-> 1, onError |-> FALSE, sid |-> s],
                                         StampOf(s))
        /\ meta' = Append(meta, NewMeta("plain", q, 1, FALSE, FALSE, FALSE, TRUE, TRUE,
                                        FALSE, NoEvent))
        /\ stack' = [stack EXCEPT ![n] = a.f]
        /\ last' = Other
  /\ UNCHANGED <<hub, eventQueue, eventRegistry, tasks, exc, destroyed, clock,
                 published, lastOp, matchVars, untilSignal>>

NextReentrant ==
  \/ \E k \in Keys, d \in FanData : SPublish(k, d)
  \/ \E q \in Queries : SOn(q, 1, FALSE, FALSE, FALSE, OkB, "ok")
  \/ SCall(OkB, "ok", "ok")
  \/ \E q \in Queries : SCallOn(q)
  \/ SReturn

SpecReentrant == InitHub("sync") /\ [][NextReentrant]_vars

\* C38: in the synchronous hub a subscription made without replayLatest is
\* invoked only with events published after it was registered, so a
\* subscription registered by a callback during a dispatch is not invoked
\* for the event of that dispatch.
C38_NotInvokedForSameEvent ==
  hub = "sync" =>
    \A s \in Allocated :
      ~meta[s].replayLatest =>
        \A n \in DOMAIN recv[s] : published[recv[s][n]].id > meta[s].regAt

(***************************************************************************)
(* Queued hub: subscribeAsync.  With replayLatest and a stored event the   *)
(* async function suspends at await callback(latestEvent) and calls        *)
(* internalSubscribe only when the callback's promise has settled; without *)
(* a replayed event it reaches internalSubscribe before it returns.        *)
(* Fields of its meta record: installed, whether internalSubscribe has     *)
(* run; replayB, what the replayed callback invocation does.               *)
(***************************************************************************)
QSubscribeAsync(q, replayLatest, b) ==
  /\ hub = "queued"
  /\ Len(meta) < MaxSubs
  /\ b \in {OkB, PendingB}
  /\ LET s == Len(meta) + 1
         latestEvent == ReplayEvent(eventRegistry, q, replayLatest)
         suspended == latestEvent # NoEvent
     IN /\ IF suspended
           THEN /\ QInvoke(s, latestEvent, b)
                /\ UNCHANGED subscribers
           ELSE /\ b = OkB
                /\ QNoInvoke
                /\ subscribers' = PushSubscriber(subscribers, q,
                                    [cb |-> 1, onError |-> FALSE, sid |-> s], 0)
        /\ meta' = Append(meta,
                          [installed |-> ~suspended, replayB |-> b]
                          @@ NewMeta("plain", q, 1, FALSE, FALSE, FALSE, TRUE, ~suspended,
                                     replayLatest, latestEvent))
        /\ last' = Other
  /\ UNCHANGED <<hub, eventRegistry, tasks, syncVars, destroyed, clock, matchVars, untilSignal>>

IsAsync(s) == "installed" \in DOMAIN meta[s]

\* the promise of the replayed callback invocation resolves: subscribeAsync
\* resumes after its await and returns this.internalSubscribe(...)
QReplaySettled(s) ==
  /\ hub = "queued"
  /\ s \in Allocated
  /\ IsAsync(s)
  /\ ~meta[s].installed
  /\ meta[s].replayB = OkB
  /\ subscribers' = PushSubscriber(subscribers, meta[s].query,
                                   [cb |-> 1, onError |-> FALSE, sid |-> s], 0)
  /\ meta' = [meta EXCEPT ![s].installed = TRUE, ![s].handle = TRUE]
  /\ last' = Other
  /\ QNoInvoke
  /\ UNCHANGED <<hub, eventRegistry, tasks, syncVars, destroyed, clock, matchVars, untilSignal>>

AsyncReplayBehaviours == {OkB, PendingB}

NextAsyncReplay ==
  \/ \E k \in Keys, d \in FanData : QPublish(k, d)
  \/ QFlush
  \/ QRunTask(OkB)
  \/ \E q \in Queries, b \in AsyncReplayBehaviours : QSubscribeAsync(q, TRUE, b)
  \/ \E s \in SubIds : QReplaySettled(s)

SpecAsyncReplay == InitHub("queued") /\ [][NextAsyncReplay]_vars

\* C39: in the queued hub, once every published event has been flushed and
\* dispatched, a subscribeAsync call made with replayLatest has received
\* every matching event published after the call, whether or not its
\* replayed callback invocation has settled.
C39_NoGapAfterReplay ==
  (hub = "queued" /\ Quiescent) =>
    \A s \in Allocated :
      (IsAsync(s) /\ meta[s].replayLatest) =>
        \A i \in DOMAIN published : ListensTo(s, i) => i \in Range(recv[s])


\* C40: in the synchronous hub no exception leaves a dispatch: publish never
\* ends by throwing, no nested publish is left by an exception, and when no
\* dispatch is running every subscription registered for an event and
\* matching it has been invoked with it, also when a callback threw and its
\* onError handler threw as well.
C40_HandlerFailureContained ==
  hub = "sync" =>
    /\ ~exc
    /\ last.op = "publish" => ~last.threw
    /\ stack = <<>> =>
         \A i \in DOMAIN published, s \in Allocated :
           ListensTo(s, i) => Count(recv[s], i) >= 1

=============================================================================
